---- MODULE Spec2Model ----
(***************************************************************************)
(* Model of the funding-opportunity pipeline of FundingCall_UK:            *)
(* scrapers/utils.py load_json, save_json, validate_funding_data and       *)
(* update_database, with the aggregate store file as the durable state.    *)
(*                                                                         *)
(* Python outcomes are modelled explicitly: a function result is either a  *)
(* value or the name of the exception it raised, so that "is caught",      *)
(* "escapes" and "returns False" are different things in the model.        *)
(***************************************************************************)
EXTENDS Integers, Sequences, FiniteSets, TLC

\* ------------------------------------------------------------------------
\* Bounds of the model
\* ------------------------------------------------------------------------
\* longest batch handed to update_database
MaxBatch == 2
\* number of update_database calls in one behaviour (also the clock range)
MaxCalls == 2
\* longest title handed to generate_id
MaxTitleLen == 2
\* number of calendar years, from 2023 on, a deadline is drawn from
MaxYears == 3
\* largest whole success rate, in percent, handed to determine_competition_level
MaxRate == 35
\* how far around each priority threshold the amounts are drawn from
MaxDelta == 1
\* most raw schemes (or opportunity pages) one run of a scraper finds
MaxSchemes == 2
\* most records handed to generate_summary_report
MaxFundings == 2
\* most records the scrapers of one update cycle return in all
MaxFound == 2

\* opportunity urls a UKRI site lists (SpecUkri)
MaxUrls == 2

\* listing pages the UKRI site has (SpecMain)
MaxSitePages == 16

\* opportunity pages whose detail scrape may fail (SpecMain)
MaxFailing == 3

VARIABLES
    disk,     \* the store file: [file, data]
    pre,      \* the store file as it was when the last call started
    batch,    \* new_fundings of the last update_database call
    ret,      \* outcome of the last call: "none", "True", "False", or "raise"
    save,     \* what save_json did in the last call
    calls,    \* number of calls so far; calls + 1 is datetime.now()
    rec,      \* the record handed to validate_funding_data (SpecValidate)
    vres,     \* its outcome: "none", "True", "False" or "TypeError"
    call,     \* the arguments of the scraper function under study
    result    \* what that function gave: its value or its exception

vars == <<disk, pre, batch, ret, save, calls, rec, vres, call, result>>

\* no scraper function is under study
NoCall == [fn |-> "none"]

NoResult == [exc |-> "pending"]

\* ------------------------------------------------------------------------
\* Python values
\* ------------------------------------------------------------------------
\* A nested value of a record: its Python type and, for a container, the
\* keys (dict) or items (list) among the two the validator looks for.
NestedKeys == {"amount", "deadline"}

Dict(ks) == [type |-> "dict", items |-> ks]

PyList(ks) == [type |-> "list", items |-> ks]

PyNone == [type |-> "NoneType", items |-> {}]

PyInt == [type |-> "int", items |-> {}]

NestedValues ==
    {Dict(ks) : ks \in SUBSET NestedKeys}
        \cup {PyList(ks) : ks \in SUBSET NestedKeys}
        \cup {PyNone, PyInt}

\* `k in v` of Python: membership for a dict (keys) or a list (items),
\* TypeError for a value that is not iterable.
py_in(k, v) ==
    IF v.type \in {"NoneType", "int"} THEN "TypeError"
    ELSE IF k \in v.items THEN "True"
    ELSE "False"

\* ------------------------------------------------------------------------
\* validate_funding_data
\* ------------------------------------------------------------------------
required_fields ==
    << "id", "title", "organization", "category", "description",
       "eligibility", "funding_details", "application" >>

RequiredSet == {required_fields[i] : i \in 1..Len(required_fields)}

\* A funding record: the top-level keys it has, its id and content (ver),
\* and the values under funding_details and application.
Full(i, v) ==
    [id |-> i, ver |-> v, keys |-> RequiredSet,
     funding_details |-> Dict({"amount"}),
     application |-> Dict({"deadline"})]

validate_funding_data(funding) ==
    IF \E i \in 1..Len(required_fields) : required_fields[i] \notin funding.keys
    THEN "False"
    ELSE LET a == py_in("amount", funding.funding_details) IN
         IF a = "TypeError" THEN "TypeError"
         ELSE IF a = "False" THEN "False"
         ELSE LET d == py_in("deadline", funding.application) IN
              IF d = "TypeError" THEN "TypeError"
              ELSE IF d = "False" THEN "False"
              ELSE "True"

\* ------------------------------------------------------------------------
\* The store file
\* ------------------------------------------------------------------------
DbKeys == {"last_updated", "total_fundings", "fundings"}

NoData ==
    [type |-> "none", keys |-> {}, fundings |-> <<>>,
     total_fundings |-> 0, last_updated |-> 0]

\* a JSON object with the given keys
JsonDict(ks, fs, total, stamp) ==
    [type |-> "dict", keys |-> ks, fundings |-> fs,
     total_fundings |-> total, last_updated |-> stamp]

\* JSON null and a non-empty JSON array
JsonNull == [NoData EXCEPT !.type = "null"]

JsonList == [NoData EXCEPT !.type = "list"]

File(kind, data) == [file |-> kind, data |-> data]

Missing == File("missing", NoData)

Corrupt == File("corrupt", NoData)

Unreadable == File("unreadable", NoData)

\* `not database`
\* (`if database is None` in place of `if not database`)
Falsy_None_only(v) == v.type = "null"

Falsy(v) == v.type = "null" \/ (v.type = "dict" /\ v.keys = {})

\* load_json without its JSONDecodeError handler
load_json_raises(d) ==
    IF d.file = "missing" THEN [exc |-> "none", val |-> JsonDict({}, <<>>, 0, 0)]
    ELSE IF d.file = "corrupt" THEN [exc |-> "JSONDecodeError", val |-> NoData]
    ELSE IF d.file = "unreadable" THEN [exc |-> "PermissionError", val |-> NoData]
    ELSE [exc |-> "none", val |-> d.data]

load_json(d) ==
    IF d.file = "missing" THEN [exc |-> "none", val |-> JsonDict({}, <<>>, 0, 0)]
    ELSE IF d.file = "corrupt" THEN [exc |-> "none", val |-> JsonDict({}, <<>>, 0, 0)]
    ELSE IF d.file = "unreadable" THEN [exc |-> "PermissionError", val |-> NoData]
    ELSE [exc |-> "none", val |-> d.data]

\* What the environment does to the write: "ok", or the step that fails.
IoOutcomes == {"ok", "mkdir", "open", "dump"}

save_json(data, d, io) ==
    IF io = "mkdir" THEN [ok |-> FALSE, disk |-> d]
    ELSE IF io = "open" THEN [ok |-> FALSE, disk |-> d]
    ELSE IF io = "dump" THEN [ok |-> FALSE, disk |-> Corrupt]
    ELSE [ok |-> TRUE, disk |-> File("json", data)]

\* ------------------------------------------------------------------------
\* update_database
\* ------------------------------------------------------------------------
\* the database update_database starts from when load_json gave nothing
EmptyDatabase(now) == JsonDict(DbKeys, <<>>, 0, now)

\* `except Exception` of update_database: log, fall through to return False.
\* Nothing has been written when an exception reaches it, since save_json
\* catches its own.
\* (the handler re-raising instead)
except_Exception_reraise(d) == [ret |-> "raise", disk |-> d, save |-> "not_attempted"]

except_Exception(d) == [ret |-> "False", disk |-> d, save |-> "not_attempted"]

\* {f['id'] for f in database.get('fundings', [])}
stored_fundings(database) ==
    IF "fundings" \in database.keys THEN database.fundings ELSE <<>>

\* (the set left empty)
existing_ids_of_none(database) == {}

existing_ids_of(database) ==
    {stored_fundings(database)[i].id : i \in 1..Len(stored_fundings(database))}

\* (the loop with `break` in place of skipping a record that is not valid)
RECURSIVE merge_loop_stops_at_invalid(_, _, _, _)
merge_loop_stops_at_invalid(database, new_fundings, existing_ids, i) ==
    IF i > Len(new_fundings) THEN [exc |-> "none", database |-> database]
    ELSE LET funding == new_fundings[i]
             valid == validate_funding_data(funding)
         IN  IF valid = "TypeError"
             THEN [exc |-> "TypeError", database |-> database]
             ELSE IF valid = "False"
             THEN [exc |-> "none", database |-> database]
             ELSE IF funding.id \notin existing_ids
             THEN IF "fundings" \notin database.keys
                  THEN [exc |-> "KeyError", database |-> database]
                  ELSE merge_loop_stops_at_invalid(
                           [database EXCEPT !.fundings = Append(@, funding)],
                           new_fundings, existing_ids, i + 1)
             ELSE merge_loop_stops_at_invalid(database, new_fundings, existing_ids, i + 1)

\* (the loop replacing a stored record by a valid batch record of its id)
RECURSIVE merge_loop_overwrites(_, _, _, _)
merge_loop_overwrites(database, new_fundings, existing_ids, i) ==
    IF i > Len(new_fundings) THEN [exc |-> "none", database |-> database]
    ELSE LET funding == new_fundings[i]
             valid == validate_funding_data(funding)
         IN  IF valid = "TypeError"
             THEN [exc |-> "TypeError", database |-> database]
             ELSE IF valid = "True" /\ "fundings" \notin database.keys
             THEN [exc |-> "KeyError", database |-> database]
             ELSE IF valid = "True" /\ funding.id \notin existing_ids
             THEN merge_loop_overwrites(
                      [database EXCEPT !.fundings = Append(@, funding)],
                      new_fundings, existing_ids, i + 1)
             ELSE IF valid = "True"
             THEN merge_loop_overwrites(
                      [database EXCEPT !.fundings =
                          [k \in 1..Len(@) |->
                              IF @[k].id = funding.id THEN funding ELSE @[k]]],
                      new_fundings, existing_ids, i + 1)
             ELSE merge_loop_overwrites(database, new_fundings, existing_ids, i + 1)

\* the for loop over new_fundings, from position i on; existing_ids is the
\* set built before the loop and is not touched by it
RECURSIVE merge_loop(_, _, _, _)
merge_loop(database, new_fundings, existing_ids, i) ==
    IF i > Len(new_fundings) THEN [exc |-> "none", database |-> database]
    ELSE LET funding == new_fundings[i]
             valid == validate_funding_data(funding)
         IN  IF valid = "TypeError"
             THEN [exc |-> "TypeError", database |-> database]
             ELSE IF valid = "True" /\ funding.id \notin existing_ids
             THEN IF "fundings" \notin database.keys
                  THEN [exc |-> "KeyError", database |-> database]
                  ELSE merge_loop([database EXCEPT !.fundings = Append(@, funding)],
                                  new_fundings, existing_ids, i + 1)
             ELSE merge_loop(database, new_fundings, existing_ids, i + 1)

\* (the metadata update without the recount)
update_metadata_keeps_total(database, now) ==
    [database EXCEPT !.last_updated = now,
                     !.keys = @ \cup {"last_updated", "total_fundings"}]

update_metadata(database, now) ==
    [database EXCEPT !.last_updated = now,
                     !.total_fundings = Len(database.fundings),
                     !.keys = @ \cup {"last_updated", "total_fundings"}]

\* update_database from the point where load_json has returned; d is the
\* store file as it is when the function goes on to write
update_database_loaded(new_fundings, loaded, d, io, now) ==
    IF loaded.exc # "none" THEN except_Exception(d)
    ELSE
    LET database == IF Falsy(loaded.val) THEN EmptyDatabase(now) ELSE loaded.val IN
    \* database.get on a value that is not a dict: AttributeError
    IF database.type # "dict" THEN except_Exception(d)
    \* f['id'] on a stored record without id: KeyError
    ELSE IF \E i \in 1..Len(stored_fundings(database)) :
                "id" \notin stored_fundings(database)[i].keys
    THEN except_Exception(d)
    ELSE
    LET merged == merge_loop(database, new_fundings, existing_ids_of(database), 1) IN
    IF merged.exc # "none" THEN except_Exception(d)
    \* database['fundings'] on a dict without that key: KeyError
    ELSE IF "fundings" \notin merged.database.keys THEN except_Exception(d)
    ELSE
    LET saved == save_json(update_metadata(merged.database, now), d, io) IN
    [ret |-> IF saved.ok THEN "True" ELSE "False", disk |-> saved.disk, save |-> io]

update_database(new_fundings, d, io, now) ==
    update_database_loaded(new_fundings, load_json(d), d, io, now)

\* ------------------------------------------------------------------------
\* Inputs
\* ------------------------------------------------------------------------
\* Records a batch is drawn from: a changed copy of stored record A, a new
\* record C, D without description, and E whose funding_details is null.
RecordD == [Full("D", "v1") EXCEPT !.keys = @ \ {"description"}]

RecordE == [Full("E", "v1") EXCEPT !.funding_details = PyNone]

BatchRecords ==
    {Full("A", "v2"), Full("C", "v1"), RecordD, RecordE}

Batches == UNION {[1..n -> BatchRecords] : n \in 0..MaxBatch}

StoredAB == <<Full("A", "v1"), Full("B", "v1")>>

\* Store files a first call can find: absent, unparseable, unreadable,
\* JSON of another shape, and a database of two records (once with a
\* total_fundings that does not match, as after an edit by hand).
InitialStores ==
    {Missing, Corrupt, Unreadable,
     File("json", JsonNull),
     File("json", JsonList),
     File("json", JsonDict({"last_updated"}, <<>>, 0, 0)),
     File("json", JsonDict(DbKeys, <<[Full("A", "v1") EXCEPT !.keys = @ \ {"id"}]>>, 1, 0)),
     File("json", JsonDict(DbKeys, StoredAB, Len(StoredAB), 0)),
     File("json", JsonDict(DbKeys, StoredAB, Len(StoredAB) + 1, 0))}

\* All records validate_funding_data is checked on.
Records ==
    [id : {"A"}, ver : {"v1"}, keys : SUBSET RequiredSet,
     funding_details : NestedValues, application : NestedValues]

\* ------------------------------------------------------------------------
\* Specification of the store under repeated update_database calls
\* ------------------------------------------------------------------------
Init ==
    /\ disk \in InitialStores
    /\ pre = disk
    /\ batch = <<>>
    /\ ret = "none"
    /\ save = "none"
    /\ calls = 0
    /\ rec = Full("A", "v1")
    /\ vres = "none"
    /\ call = NoCall
    /\ result = NoResult

UpdateDatabase ==
    \E new_fundings \in Batches, io \in IoOutcomes :
        /\ calls < MaxCalls
        /\ \E r \in {update_database(new_fundings, disk, io, calls + 1)} :
             /\ disk' = r.disk
             /\ ret' = r.ret
             /\ save' = r.save
        /\ pre' = disk
        /\ batch' = new_fundings
        /\ calls' = calls + 1
        /\ UNCHANGED <<rec, vres, call, result>>

Next == UpdateDatabase

Spec == Init /\ [][Next]_vars

\* ------------------------------------------------------------------------
\* Specification of validate_funding_data as a function of its argument
\* ------------------------------------------------------------------------
InitValidate ==
    /\ disk = Missing
    /\ pre = Missing
    /\ batch = <<>>
    /\ ret = "none"
    /\ save = "none"
    /\ calls = 0
    /\ rec \in Records
    /\ vres = "none"
    /\ call = NoCall
    /\ result = NoResult

Validate ==
    /\ vres = "none"
    /\ vres' = validate_funding_data(rec)
    /\ UNCHANGED <<disk, pre, batch, ret, save, calls, rec, call, result>>

NextValidate == Validate

SpecValidate == InitValidate /\ [][NextValidate]_vars

TypeOK ==
    /\ ret \in {"none", "True", "False", "raise"}
    /\ save \in IoOutcomes \cup {"none", "not_attempted"}
    /\ calls \in 0..MaxCalls
    /\ Len(batch) <= MaxBatch
    /\ vres \in {"none", "True", "False", "TypeError"}

\* ------------------------------------------------------------------------
\* Vocabulary of the properties
\* ------------------------------------------------------------------------
IdsOf(fs) == {fs[i].id : i \in 1..Len(fs)}

NoTwoShareId(fs) ==
    \A i, j \in 1..Len(fs) : i # j => fs[i].id # fs[j].id

IsPrefix(s, t) ==
    /\ Len(s) <= Len(t)
    /\ \A i \in 1..Len(s) : s[i] = t[i]

\* the call found a store it reads as the empty database
PreEmpty == pre.file \in {"missing", "corrupt"}

\* the records the store held when the last call started
PreFundings ==
    IF pre.file = "json" /\ pre.data.type = "dict" THEN stored_fundings(pre.data)
    ELSE <<>>

Called == ret # "none"

PassesValidation(r) == validate_funding_data(r) = "True"

\* the records of the last batch that pass validation, in batch order
ValidOfBatch == SelectSeq(batch, PassesValidation)

IsNewValid(r) == PassesValidation(r) /\ r.id \notin IdsOf(PreFundings)

\* the records of the last batch that pass validation and whose id the
\* store did not hold, in batch order
AdmittedOfBatch == SelectSeq(batch, IsNewValid)

WriteFailed == save \in {"mkdir", "open", "dump"}

\* ------------------------------------------------------------------------
\* C1: after a successful update_database, starting from a store without
\* duplicates, no two records of fundings share an id, also when the batch
\* itself holds two valid records with one new id.
\* The code builds existing_ids once and never adds to it: violated.
\* ------------------------------------------------------------------------
C1_NoTwoRecordsShareId ==
    ret = "True" => NoTwoShareId(disk.data.fundings)

\* ------------------------------------------------------------------------
\* C2: after every update_database that returns True, the persisted
\* total_fundings equals the number of records in fundings, whatever the
\* store held before and whatever the batch.
\* ------------------------------------------------------------------------
C2_TotalIsLength ==
    ret = "True" =>
        /\ disk.file = "json"
        /\ "total_fundings" \in disk.data.keys
        /\ disk.data.total_fundings = Len(disk.data.fundings)

\* a call on a store whose total was wrong that appended a record
C2_Witness ==
    /\ ret = "True"
    /\ pre.file = "json"
    /\ pre.data.total_fundings # Len(pre.data.fundings)
    /\ Len(disk.data.fundings) > Len(pre.data.fundings)

\* ------------------------------------------------------------------------
\* C3: after update_database succeeds, the ids in the store are the ids
\* stored before plus the ids of the batch records that pass validation;
\* every stored record was stored before or is a batch record that passes
\* validation, and a record that fails it does not stop later records.
\* ------------------------------------------------------------------------
C3_IdsAfterMerge ==
    ret = "True" =>
        /\ IdsOf(disk.data.fundings) = IdsOf(PreFundings) \cup IdsOf(ValidOfBatch)
        /\ \A i \in 1..Len(disk.data.fundings) :
              \/ \E j \in 1..Len(PreFundings) : disk.data.fundings[i] = PreFundings[j]
              \/ \E j \in 1..Len(batch) :
                    /\ disk.data.fundings[i] = batch[j]
                    /\ PassesValidation(batch[j])

\* store {A,B}, batch [D without description, C valid]: D is dropped, C,
\* which comes after it, is stored: {A,B,C}, total_fundings 3
C3_Witness ==
    /\ ret = "True"
    /\ PreFundings = StoredAB
    /\ batch = <<RecordD, Full("C", "v1")>>
    /\ IdsOf(disk.data.fundings) = {"A", "B", "C"}
    /\ disk.data.total_fundings = 3

C5_SecondMergeChangesNothing ==
    [][ (ret = "True" /\ ret' = "True" /\ batch' = batch) =>
            /\ disk'.data.fundings = disk.data.fundings
            /\ disk'.data.total_fundings = disk.data.total_fundings
            /\ disk'.data.keys = disk.data.keys ]_vars

\* the second of two successful calls, on a store that is what merging
\* this batch, with one id twice in it, into the empty store gives
C5_Witness ==
    /\ calls = 2
    /\ ret = "True"
    /\ \E i, j \in 1..Len(batch) :
          i # j /\ batch[i] = batch[j] /\ PassesValidation(batch[i])
    /\ pre.file = "json"
    /\ pre.data.last_updated = 1
    /\ pre.data.fundings = ValidOfBatch
    /\ disk.data.fundings = pre.data.fundings
    /\ disk.data.total_fundings = pre.data.total_fundings
    /\ disk.data.last_updated = 2

\* ------------------------------------------------------------------------
\* C6: when the write fails at any point (creating the directory, opening
\* the file, serializing), the store file is what it was before the call
\* and update_database returns False.
\* save_json opens the store for writing, which empties it, and streams
\* the document into it: violated by a failure during the dump.
\* ------------------------------------------------------------------------
C6_FailedWriteLeavesStore ==
    WriteFailed => (ret = "False" /\ disk = pre)

\* ------------------------------------------------------------------------
\* C7: no exception escapes update_database: for every store condition and
\* every batch it returns a boolean, and True only when this call wrote
\* the updated database to the store.
\* ------------------------------------------------------------------------
C7_NoExceptionEscapes ==
    /\ ret \in {"none", "True", "False"}
    /\ ret = "True" =>
          /\ save = "ok"
          /\ disk.file = "json"
          /\ disk.data.type = "dict"
          /\ disk.data.last_updated = calls
          /\ disk.data.fundings = PreFundings \o AdmittedOfBatch

\* validate_funding_data raised inside the loop and the call returned False
C7_Witness ==
    /\ ret = "False"
    /\ save = "not_attempted"
    /\ \E i \in 1..Len(batch) : validate_funding_data(batch[i]) = "TypeError"
    /\ PreFundings = StoredAB
    /\ disk = pre

\* the store was well-formed JSON of an unexpected shape
C7_WitnessShape ==
    /\ ret = "False"
    /\ pre = File("json", JsonList)
    /\ Len(batch) > 0

\* ------------------------------------------------------------------------
\* C8: a store that is missing or is not parseable JSON is read as the
\* empty database; that alone makes no call fail (a failing call had a
\* failing write or a record on which validation raised), and after
\* success the store holds exactly the batch records that pass
\* validation, with total_fundings their number.
\* ------------------------------------------------------------------------
C8_MissingOrCorruptIsEmpty ==
    (Called /\ PreEmpty) =>
        /\ ret = "True" =>
              /\ disk.data.fundings = ValidOfBatch
              /\ disk.data.total_fundings = Len(ValidOfBatch)
        /\ ret = "False" =>
              \/ WriteFailed
              \/ \E i \in 1..Len(batch) : validate_funding_data(batch[i]) = "TypeError"

\* a successful merge into an unparseable store
C8_Witness ==
    /\ ret = "True"
    /\ pre = Corrupt
    /\ Len(disk.data.fundings) >= 1
    /\ Len(batch) > Len(disk.data.fundings)

\* a successful merge into a missing store
C8_WitnessMissing ==
    /\ ret = "True"
    /\ pre = Missing
    /\ Len(disk.data.fundings) >= 1

\* ------------------------------------------------------------------------
\* C9: validate_funding_data returns True exactly when the record has the
\* eight required keys, funding_details has an amount key and application
\* has a deadline key, and False otherwise, whatever the values are.
\* `'amount' in funding['funding_details']` raises for a value that is
\* not iterable and is true for a list holding 'amount': violated.
\* ------------------------------------------------------------------------
HasKey(v, k) == v.type = "dict" /\ k \in v.items

HasRequiredStructure(r) ==
    /\ RequiredSet \subseteq r.keys
    /\ HasKey(r.funding_details, "amount")
    /\ HasKey(r.application, "deadline")

C9_TrueIffStructure ==
    vres # "none" =>
        /\ vres \in {"True", "False"}
        /\ (vres = "True") <=> HasRequiredStructure(rec)

\* ------------------------------------------------------------------------
\* C10: validate_funding_data never raises, also on a record whose
\* funding_details or application is not a mapping; inside
\* update_database such a record is skipped and the rest of the batch is
\* merged and persisted.
\* The membership test raises TypeError on null or a number, and the
\* handler of update_database gives the whole batch up: violated.
\* ------------------------------------------------------------------------
NotAMapping(r) ==
    /\ RequiredSet \subseteq r.keys
    /\ \/ r.funding_details.type # "dict"
       \/ r.application.type # "dict"

\* the store is one update_database can merge into
PreMergeable ==
    \/ PreEmpty
    \/ /\ pre.file = "json"
       /\ \/ Falsy(pre.data)
          \/ /\ pre.data.type = "dict"
             /\ "fundings" \in pre.data.keys
             /\ \A i \in 1..Len(pre.data.fundings) : "id" \in pre.data.fundings[i].keys

C10_MalformedRecordSkipped ==
    (Called /\ PreMergeable /\ \E i \in 1..Len(batch) : NotAMapping(batch[i])) =>
        /\ \A i \in 1..Len(batch) :
              validate_funding_data(batch[i]) \in {"True", "False"}
        /\ save # "not_attempted"
        /\ ret = "True" => disk.data.fundings = PreFundings \o AdmittedOfBatch

\* ------------------------------------------------------------------------
\* Python strings, as sequences of characters
\* ------------------------------------------------------------------------
UpperCase ==
    << "A", "B", "C", "D", "E", "F", "G", "H", "I", "J", "K", "L", "M",
       "N", "O", "P", "Q", "R", "S", "T", "U", "V", "W", "X", "Y", "Z" >>

LowerCase ==
    << "a", "b", "c", "d", "e", "f", "g", "h", "i", "j", "k", "l", "m",
       "n", "o", "p", "q", "r", "s", "t", "u", "v", "w", "x", "y", "z" >>

Digits == << "0", "1", "2", "3", "4", "5", "6", "7", "8", "9" >>

RangeOf(s) == {s[i] : i \in 1..Len(s)}

IsAlnum(c) == c \in RangeOf(UpperCase) \cup RangeOf(LowerCase) \cup RangeOf(Digits)

\* str.lower(), one character
py_lower_char(c) ==
    IF c \in RangeOf(UpperCase)
    THEN LowerCase[CHOOSE i \in 1..Len(UpperCase) : UpperCase[i] = c]
    ELSE c

py_lower(s) == [i \in 1..Len(s) |-> py_lower_char(s[i])]

\* re.sub(r'[^a-zA-Z0-9]+', '_', s): every maximal run of characters that
\* are not alphanumeric becomes one underscore (in_run: the character
\* before belonged to such a run)
RECURSIVE sub_non_alnum(_, _)
sub_non_alnum(s, in_run) ==
    IF s = <<>> THEN <<>>
    ELSE IF IsAlnum(Head(s)) THEN <<Head(s)>> \o sub_non_alnum(Tail(s), FALSE)
    ELSE IF in_run THEN sub_non_alnum(Tail(s), TRUE)
    ELSE <<"_">> \o sub_non_alnum(Tail(s), TRUE)

\* re.sub(r'_+', '_', s)
RECURSIVE sub_underscores(_, _)
sub_underscores(s, in_run) ==
    IF s = <<>> THEN <<>>
    ELSE IF Head(s) # "_" THEN <<Head(s)>> \o sub_underscores(Tail(s), FALSE)
    ELSE IF in_run THEN sub_underscores(Tail(s), TRUE)
    ELSE <<"_">> \o sub_underscores(Tail(s), TRUE)

\* str.strip('_')
RECURSIVE lstrip_underscore(_)
lstrip_underscore(s) ==
    IF s # <<>> /\ Head(s) = "_" THEN lstrip_underscore(Tail(s)) ELSE s

RECURSIVE rstrip_underscore(_)
rstrip_underscore(s) ==
    IF s # <<>> /\ s[Len(s)] = "_"
    THEN rstrip_underscore(SubSeq(s, 1, Len(s) - 1))
    ELSE s

strip_underscore(s) == rstrip_underscore(lstrip_underscore(s))

\* needle in s
py_contains(needle, s) ==
    \E i \in 0..(Len(s) - Len(needle)) :
        \A k \in 1..Len(needle) : s[i + k] = needle[k]

\* ------------------------------------------------------------------------
\* FundingScraper.generate_id
\* ------------------------------------------------------------------------
\* hashlib.md5(s.encode()).hexdigest(): the digest of s. Collisions are not
\* modelled: the digest stands for the string it was taken of.
md5_hexdigest(s) == <<"md5">> \o s

\* (an id that also draws on the scraper it is called on)
generate_id_per_scraper(self, title, organization) ==
    LET combined == organization \o <<"_">> \o title
        slug == strip_underscore(
                    sub_underscores(sub_non_alnum(py_lower(combined), FALSE), FALSE))
    IN  slug \o <<"_">> \o md5_hexdigest(<<self.name>> \o combined)

generate_id(self, title, organization) ==
    LET combined == organization \o <<"_">> \o title
        slug == strip_underscore(
                    sub_underscores(sub_non_alnum(py_lower(combined), FALSE), FALSE))
        content_hash == md5_hexdigest(combined)
    IN  slug \o <<"_">> \o content_hash

\* ------------------------------------------------------------------------
\* Specification of generate_id over update cycles: one opportunity is
\* scraped in each cycle, by any of the scrapers, and merged into the store
\* ------------------------------------------------------------------------
\* the scraper objects: FundingScraper.__init__(base_url, name)
ScraperInstances ==
    {[name |-> "UKRI", base_url |-> "https://www.ukri.org"],
     [name |-> "National Academies", base_url |-> "https://royalsociety.org"],
     [name |-> "Charitable Foundations", base_url |-> "https://wellcome.org"]}

TitleChars == {"a", "B", " ", "_"}

Titles == UNION {[1..n -> TitleChars] : n \in 0..MaxTitleLen}

Organizations == {<<"A", "c", "a", "d", "e", "m", "y">>, <<"F", "o", "u", "n", "d", "a", "t", "i", "o", "n">>, <<"M", "e", "d", "i", "c", "a", "l", " ", "R", "e", "s", "e", "a", "r", "c", "h", " ", "C", "o", "u", "n", "c", "i", "l">>}

InitId ==
    /\ disk = Missing
    /\ pre = Missing
    /\ batch = <<>>
    /\ ret = "none"
    /\ save = "none"
    /\ calls = 0
    /\ rec = Full("A", "v1")
    /\ vres = "none"
    /\ call \in [fn : {"generate_id"}, title : Titles, organization : Organizations]
    /\ result = [exc |-> "pending", ids |-> <<>>, by |-> <<>>]

\* One cycle: a scraper builds the record of the opportunity, stamped with
\* the time of the cycle, and update_database merges it.
ScrapeAndMerge ==
    /\ calls < MaxCalls
    /\ \E self \in ScraperInstances :
         \E id \in {generate_id(self, call.title, call.organization)} :
            /\ batch' = <<Full(id, calls + 1)>>
            /\ result' = [exc |-> "none",
                          ids |-> Append(result.ids, id),
                          by |-> Append(result.by, self.name)]
            /\ \E io \in IoOutcomes :
                 \E r \in {update_database(batch', disk, io, calls + 1)} :
                    /\ disk' = r.disk
                    /\ ret' = r.ret
                    /\ save' = r.save
    /\ pre' = disk
    /\ calls' = calls + 1
    /\ UNCHANGED <<rec, vres, call>>

NextId == ScrapeAndMerge

SpecId == InitId /\ [][NextId]_vars

\* ------------------------------------------------------------------------
\* C11: generate_id is a function of (title, organization) alone: every
\* call for one opportunity, on any scraper and in any cycle, returns the
\* same id, so the opportunity scraped again in a later cycle is found in
\* the store and skipped by the merge.
\* ------------------------------------------------------------------------
C11_SameIdEveryCycle ==
    /\ \A i, j \in 1..Len(result.ids) : result.ids[i] = result.ids[j]
    /\ (ret = "True" /\ pre.file = "json" /\ Len(pre.data.fundings) > 0) =>
          disk.data.fundings = pre.data.fundings

\* the opportunity stored in cycle 1 by one scraper, scraped again in
\* cycle 2 by another and skipped
C11_Witness ==
    /\ calls = 2
    /\ ret = "True"
    /\ result.by[1] # result.by[2]
    /\ pre.file = "json"
    /\ Len(disk.data.fundings) = 1
    /\ disk.data.fundings[1].ver = 1
    /\ batch[1].ver = 2
    /\ batch[1].id = disk.data.fundings[1].id

\* ------------------------------------------------------------------------
\* datetime: strptime, replace, + timedelta, strftime
\* ------------------------------------------------------------------------
IsLeap(y) == (y % 4 = 0 /\ y % 100 # 0) \/ y % 400 = 0

DaysInMonth(y, m) ==
    IF m = 2 THEN (IF IsLeap(y) THEN 29 ELSE 28)
    ELSE IF m \in {4, 6, 9, 11} THEN 30
    ELSE 31

\* days in the years before year y
DaysBeforeYear(y) ==
    (y - 1) * 365 + ((y - 1) \div 4) - ((y - 1) \div 100) + ((y - 1) \div 400)

RECURSIVE DaysBeforeMonth(_, _)
DaysBeforeMonth(y, m) ==
    IF m = 1 THEN 0 ELSE DaysBeforeMonth(y, m - 1) + DaysInMonth(y, m - 1)

\* date.toordinal()
ToOrdinal(dt) == DaysBeforeYear(dt.y) + DaysBeforeMonth(dt.y, dt.m) + dt.d

\* date.fromordinal(n)
FromOrdinal(n) ==
    LET y == CHOOSE yy \in (n \div 366)..((n \div 365) + 1) :
                 DaysBeforeYear(yy) < n /\ n <= DaysBeforeYear(yy + 1)
        r == n - DaysBeforeYear(y)
        m == CHOOSE mm \in 1..12 :
                 DaysBeforeMonth(y, mm) < r
                     /\ r <= DaysBeforeMonth(y, mm) + DaysInMonth(y, mm)
    IN  [y |-> y, m |-> m, d |-> r - DaysBeforeMonth(y, m)]

\* dt + timedelta(days=n)
AddDays(dt, n) == FromOrdinal(ToOrdinal(dt) + n)

IsDigit(c) == c \in RangeOf(Digits)

DigitValue(c) == (CHOOSE i \in 1..Len(Digits) : Digits[i] = c) - 1

\* the number a string of digits writes
RECURSIVE DigitsValue(_)
DigitsValue(s) ==
    IF s = <<>> THEN 0
    ELSE DigitsValue(SubSeq(s, 1, Len(s) - 1)) * 10 + DigitValue(s[Len(s)])

AllDigits(s) == s # <<>> /\ \A i \in 1..Len(s) : IsDigit(s[i])

\* positions of '-' in s
DashesOf(s) == {i \in 1..Len(s) : s[i] = "-"}

\* datetime.strptime(s, '%Y-%m-%d'): four digits of year, one or two of
\* month (1..12) and of day (1..31), and the day must exist in the month;
\* anything else is ValueError
strptime_ymd(s) ==
    LET dashes == DashesOf(s) IN
    IF Cardinality(dashes) # 2 THEN [exc |-> "ValueError"]
    ELSE
    LET p == CHOOSE i \in dashes : \A j \in dashes : i <= j
        q == CHOOSE i \in dashes : \A j \in dashes : j <= i
        ys == SubSeq(s, 1, p - 1)
        ms == SubSeq(s, p + 1, q - 1)
        ds == SubSeq(s, q + 1, Len(s))
    IN  IF ~(AllDigits(ys) /\ Len(ys) = 4) THEN [exc |-> "ValueError"]
        ELSE IF ~(AllDigits(ms) /\ Len(ms) <= 2) THEN [exc |-> "ValueError"]
        ELSE IF ~(AllDigits(ds) /\ Len(ds) <= 2) THEN [exc |-> "ValueError"]
        ELSE IF DigitsValue(ys) < 1 THEN [exc |-> "ValueError"]
        ELSE IF DigitsValue(ms) \notin 1..12 THEN [exc |-> "ValueError"]
        ELSE IF DigitsValue(ds) \notin 1..DaysInMonth(DigitsValue(ys), DigitsValue(ms))
        THEN [exc |-> "ValueError"]
        ELSE [exc |-> "none",
              dt |-> [y |-> DigitsValue(ys), m |-> DigitsValue(ms), d |-> DigitsValue(ds)]]

\* n written with at least w digits
RECURSIVE ZeroPadded(_, _)
ZeroPadded(n, w) ==
    IF w <= 1 /\ n < 10 THEN <<Digits[n + 1]>>
    ELSE ZeroPadded(n \div 10, w - 1) \o <<Digits[(n % 10) + 1]>>

\* dt.strftime('%Y-%m-%d')
strftime_ymd(dt) ==
    ZeroPadded(dt.y, 4) \o <<"-">> \o ZeroPadded(dt.m, 2) \o <<"-">> \o ZeroPadded(dt.d, 2)

\* dt.replace(year=y): ValueError when the day does not exist in that year
replace_year(dt, y) ==
    IF dt.d > DaysInMonth(y, dt.m) THEN [exc |-> "ValueError"]
    ELSE [exc |-> "none", dt |-> [dt EXCEPT !.y = y]]

\* ------------------------------------------------------------------------
\* calculate_next_deadline (AcademiesScraper and FoundationsScraper have
\* the same method, line for line)
\* ------------------------------------------------------------------------
calculate_next_deadline(deadline, frequency) ==
    LET current_deadline == strptime_ymd(deadline) IN
    IF current_deadline.exc # "none" THEN [exc |-> current_deadline.exc]
    ELSE IF py_contains(<<"A", "n", "n", "u", "a", "l">>, frequency)
    THEN LET next_deadline ==
                 replace_year(current_deadline.dt, current_deadline.dt.y + 1)
         IN  IF next_deadline.exc # "none" THEN [exc |-> next_deadline.exc]
             ELSE [exc |-> "none", val |-> strftime_ymd(next_deadline.dt)]
    ELSE IF py_contains(<<"B", "i", "-", "a", "n", "n", "u", "a", "l">>, frequency)
    THEN [exc |-> "none", val |-> strftime_ymd(AddDays(current_deadline.dt, 180))]
    ELSE [exc |-> "none", val |-> strftime_ymd(AddDays(current_deadline.dt, 365))]

\* ------------------------------------------------------------------------
\* Specification of calculate_next_deadline as a function of its arguments
\* ------------------------------------------------------------------------
Years == 2023..(2023 + MaxYears - 1)

\* the placeholders the scrapers put where no date is known
SentinelDeadlines == {<<"N", "/", "A">>, <<"C", "l", "o", "s", "e", "d">>, <<"R", "o", "l", "l", "i", "n", "g">>, <<"2", "0", "2", "5">>}

\* every 'YYYY-MM-DD' of the years, days 1..31 in every month, a date
\* written without padding, and the placeholders
DeadlineStrings ==
    {strftime_ymd([y |-> y, m |-> m, d |-> d]) : y \in Years, m \in 1..12, d \in 1..31}
        \cup {<<"2", "0", "2", "4", "-", "9", "-", "5">>}
        \cup SentinelDeadlines

Frequencies == {<<"A", "n", "n", "u", "a", "l">>, <<"B", "i", "-", "a", "n", "n", "u", "a", "l">>, <<"M", "u", "l", "t", "i", "p", "l", "e", " ", "r", "o", "u", "n", "d", "s">>, <<"N", "/", "A">>, <<"A", "n", "n", "u", "a", "l", " ", "o", "r", " ", "B", "i", "-", "a", "n", "n", "u", "a", "l">>}

InitDeadline ==
    /\ disk = Missing
    /\ pre = Missing
    /\ batch = <<>>
    /\ ret = "none"
    /\ save = "none"
    /\ calls = 0
    /\ rec = Full("A", "v1")
    /\ vres = "none"
    /\ call \in [fn : {"calculate_next_deadline"},
                 scraper : {"academies", "foundations"},
                 deadline : DeadlineStrings,
                 frequency : Frequencies]
    /\ result = NoResult

CalculateNextDeadline ==
    /\ call.fn = "calculate_next_deadline"
    /\ result = NoResult
    /\ result' = calculate_next_deadline(call.deadline, call.frequency)
    /\ UNCHANGED <<disk, pre, batch, ret, save, calls, rec, vres, call>>

NextDeadline == CalculateNextDeadline

SpecDeadline == InitDeadline /\ [][NextDeadline]_vars

Returned == result # NoResult

IsAnnual == py_contains(<<"A", "n", "n", "u", "a", "l">>, call.frequency)

IsBiAnnual == py_contains(<<"B", "i", "-", "a", "n", "n", "u", "a", "l">>, call.frequency)

\* ------------------------------------------------------------------------
\* C13: for a deadline that is no YYYY-MM-DD date ("N/A", "Closed",
\* "Rolling", a bare year) calculate_next_deadline does not raise and
\* returns the deadline it was given.
\* strptime raises ValueError and nothing catches it: violated.
\* ------------------------------------------------------------------------
C13_SentinelReturned ==
    (Returned /\ call.deadline \in SentinelDeadlines) =>
        /\ result.exc = "none"
        /\ result.val = call.deadline

\* ------------------------------------------------------------------------
\* C14: for 29 February of a leap year and a frequency with "Annual" in it
\* calculate_next_deadline does not raise and returns 28 February of the
\* next year.
\* replace(year=...) raises ValueError for a day the year lacks: violated.
\* ------------------------------------------------------------------------
C14_LeapDayRolls ==
    (Returned /\ call.deadline = <<"2", "0", "2", "4", "-", "0", "2", "-", "2", "9">> /\ IsAnnual) =>
        /\ result.exc = "none"
        /\ result.val = <<"2", "0", "2", "5", "-", "0", "2", "-", "2", "8">>

\* ------------------------------------------------------------------------
\* C15: for every valid YYYY-MM-DD deadline calculate_next_deadline returns
\* the same month and day of the next year when the frequency has "Annual"
\* in it, the date 180 days later when it has "Bi-annual", the date 365
\* days later otherwise (2024-09-15 Annual: 2025-09-15; 2024-05-30
\* Bi-annual: 2024-11-26).
\* Holds for every date but 29 February with "Annual", where the call
\* raises (C14): violated.
\* ------------------------------------------------------------------------
C15_NextDeadlineByFrequency ==
    (Returned /\ strptime_ymd(call.deadline).exc = "none") =>
        LET dt == strptime_ymd(call.deadline).dt IN
        /\ result.exc = "none"
        /\ IsAnnual =>
              result.val = strftime_ymd([dt EXCEPT !.y = dt.y + 1])
        /\ (~IsAnnual /\ IsBiAnnual) =>
              ToOrdinal(strptime_ymd(result.val).dt) = ToOrdinal(dt) + 180
        /\ (~IsAnnual /\ ~IsBiAnnual) =>
              ToOrdinal(strptime_ymd(result.val).dt) = ToOrdinal(dt) + 365
        /\ (call.deadline = <<"2", "0", "2", "4", "-", "0", "9", "-", "1", "5">> /\ call.frequency = <<"A", "n", "n", "u", "a", "l">>) =>
              result.val = <<"2", "0", "2", "5", "-", "0", "9", "-", "1", "5">>
        /\ (call.deadline = <<"2", "0", "2", "4", "-", "0", "5", "-", "3", "0">> /\ call.frequency = <<"B", "i", "-", "a", "n", "n", "u", "a", "l">>) =>
              result.val = <<"2", "0", "2", "4", "-", "1", "1", "-", "2", "6">>

\* the same statement for every date but 29 February: holds
NextDeadlineExceptLeapDay ==
    (Returned /\ strptime_ymd(call.deadline).exc = "none") =>
        LET dt == strptime_ymd(call.deadline).dt IN
        (dt.m = 2 /\ dt.d = 29 /\ IsAnnual) \/ C15_NextDeadlineByFrequency

\* ------------------------------------------------------------------------
\* determine_priority_level, determine_competition_level
\* ------------------------------------------------------------------------
AcademiesScraper_determine_priority_level_exclusive(max_amount) ==
    IF max_amount > 500000 THEN "Very High"
    ELSE IF max_amount > 200000 THEN "High"
    ELSE IF max_amount > 50000 THEN "Medium"
    ELSE "Low"

AcademiesScraper_determine_priority_level(max_amount) ==
    IF max_amount >= 500000 THEN "Very High"
    ELSE IF max_amount >= 200000 THEN "High"
    ELSE IF max_amount >= 50000 THEN "Medium"
    ELSE "Low"

FoundationsScraper_determine_priority_level(max_amount) ==
    IF max_amount >= 1000000 THEN "Very High"
    ELSE IF max_amount >= 500000 THEN "High"
    ELSE IF max_amount >= 200000 THEN "Medium"
    ELSE "Low"

\* self.determine_priority_level(max_amount), by the class of self
determine_priority_level(scraper, max_amount) ==
    IF scraper = "academies"
    THEN AcademiesScraper_determine_priority_level(max_amount)
    ELSE FoundationsScraper_determine_priority_level(max_amount)

\* s.replace('%', '')
RECURSIVE replace_percent(_)
replace_percent(s) ==
    IF s = <<>> THEN <<>>
    ELSE IF Head(s) = "%" THEN replace_percent(Tail(s))
    ELSE <<Head(s)>> \o replace_percent(Tail(s))

RECURSIVE lstrip_space(_)
lstrip_space(s) ==
    IF s # <<>> /\ Head(s) = " " THEN lstrip_space(Tail(s)) ELSE s

RECURSIVE rstrip_space(_)
rstrip_space(s) ==
    IF s # <<>> /\ s[Len(s)] = " " THEN rstrip_space(SubSeq(s, 1, Len(s) - 1)) ELSE s

RECURSIVE drop_underscores(_)
drop_underscores(s) ==
    IF s = <<>> THEN <<>>
    ELSE IF Head(s) = "_" THEN drop_underscores(Tail(s))
    ELSE <<Head(s)>> \o drop_underscores(Tail(s))

\* int(s): blanks around, an optional sign, digits with single underscores
\* between them; anything else is ValueError
py_int(s) ==
    LET t == rstrip_space(lstrip_space(s))
        signed == t # <<>> /\ Head(t) \in {"+", "-"}
        body == IF signed THEN Tail(t) ELSE t
        wellformed ==
            /\ body # <<>>
            /\ IsDigit(body[1])
            /\ IsDigit(body[Len(body)])
            /\ \A i \in 1..Len(body) : IsDigit(body[i]) \/ body[i] = "_"
            /\ \A i \in 1..(Len(body) - 1) : ~(body[i] = "_" /\ body[i + 1] = "_")
    IN  IF ~wellformed THEN [exc |-> "ValueError"]
        ELSE [exc |-> "none",
              val |-> IF signed /\ Head(t) = "-"
                      THEN 0 - DigitsValue(drop_underscores(body))
                      ELSE DigitsValue(drop_underscores(body))]

determine_competition_level_exclusive(success_rate) ==
    LET rate == py_int(replace_percent(success_rate)) IN
    IF rate.exc # "none" THEN [exc |-> rate.exc]
    ELSE IF rate.val < 10 THEN [exc |-> "none", val |-> "Extremely Competitive"]
    ELSE IF rate.val < 20 THEN [exc |-> "none", val |-> "Very Competitive"]
    ELSE IF rate.val < 30 THEN [exc |-> "none", val |-> "Competitive"]
    ELSE [exc |-> "none", val |-> "Moderately Competitive"]

determine_competition_level(success_rate) ==
    LET rate == py_int(replace_percent(success_rate)) IN
    IF rate.exc # "none" THEN [exc |-> rate.exc]
    ELSE IF rate.val <= 10 THEN [exc |-> "none", val |-> "Extremely Competitive"]
    ELSE IF rate.val <= 20 THEN [exc |-> "none", val |-> "Very Competitive"]
    ELSE IF rate.val <= 30 THEN [exc |-> "none", val |-> "Competitive"]
    ELSE [exc |-> "none", val |-> "Moderately Competitive"]

\* ------------------------------------------------------------------------
\* Specification of the two level functions as functions of their argument
\* ------------------------------------------------------------------------
PriorityThresholds == {50000, 200000, 500000, 1000000}

Amounts == {0} \cup {t + k : t \in PriorityThresholds, k \in (0 - MaxDelta)..MaxDelta}

\* n written without padding
Decimal(n) == ZeroPadded(n, 1)

\* 'N%' for every whole N up to MaxRate, and strings that are no such thing
RateStrings ==
    {Decimal(n) \o <<"%">> : n \in 0..MaxRate}
        \cup {<<"N", "/", "A">>, <<"1", "2", ".", "5", "%">>, <<"1", "5">>, <<" ", "2", "0", "%">>, <<"-", "5", "%">>, <<"1", "_", "0", "%">>, <<"%">>, <<>>}

InitLevels ==
    /\ disk = Missing
    /\ pre = Missing
    /\ batch = <<>>
    /\ ret = "none"
    /\ save = "none"
    /\ calls = 0
    /\ rec = Full("A", "v1")
    /\ vres = "none"
    /\ call \in [fn : {"determine_priority_level"},
                 scraper : {"academies", "foundations"},
                 max_amount : Amounts]
           \cup [fn : {"determine_competition_level"},
                 success_rate : RateStrings]
    /\ result = NoResult

DeterminePriorityLevel ==
    /\ call.fn = "determine_priority_level"
    /\ result = NoResult
    /\ result' = [exc |-> "none",
                  val |-> determine_priority_level(call.scraper, call.max_amount)]
    /\ UNCHANGED <<disk, pre, batch, ret, save, calls, rec, vres, call>>

DetermineCompetitionLevel ==
    /\ call.fn = "determine_competition_level"
    /\ result = NoResult
    /\ result' = determine_competition_level(call.success_rate)
    /\ UNCHANGED <<disk, pre, batch, ret, save, calls, rec, vres, call>>

NextLevels == DeterminePriorityLevel \/ DetermineCompetitionLevel

SpecLevels == InitLevels /\ [][NextLevels]_vars

\* the tiers in rising order
TierRank(level) ==
    CASE level = "Low" -> 1
      [] level = "Medium" -> 2
      [] level = "High" -> 3
      [] level = "Very High" -> 4

\* the tier the thresholds low < mid < high give an amount
TierByThresholds(a, low, mid, high) ==
    CASE a >= high -> "Very High"
      [] a >= mid /\ a < high -> "High"
      [] a >= low /\ a < mid -> "Medium"
      [] a < low -> "Low"

\* ------------------------------------------------------------------------
\* C17: determine_priority_level gives a max amount the tier of its source's
\* thresholds (Academies 50000 / 200000 / 500000, Foundations 200000 /
\* 500000 / 1000000), an amount at a threshold gets the higher tier
\* (Academies 500000 Very High, 499999 High), and a larger amount never
\* gets a lower tier.
\* ------------------------------------------------------------------------
C17_PriorityTiers ==
    (Returned /\ call.fn = "determine_priority_level") =>
        /\ result.exc = "none"
        /\ call.scraper = "academies" =>
              result.val = TierByThresholds(call.max_amount, 50000, 200000, 500000)
        /\ call.scraper = "foundations" =>
              result.val = TierByThresholds(call.max_amount, 200000, 500000, 1000000)
        /\ (call.scraper = "academies" /\ call.max_amount = 500000) =>
              result.val = "Very High"
        /\ (call.scraper = "academies" /\ call.max_amount = 499999) =>
              result.val = "High"
        /\ \A b \in Amounts :
              b >= call.max_amount =>
                  TierRank(determine_priority_level(call.scraper, b))
                      >= TierRank(result.val)

C17_Witness ==
    /\ Returned
    /\ call.fn = "determine_priority_level"
    /\ call.scraper = "academies"
    /\ call.max_amount = 500000
    /\ result.val = "Very High"

\* ------------------------------------------------------------------------
\* C18: for a percentage string with a whole rate determine_competition_level
\* returns Extremely Competitive up to 10, Very Competitive above 10 up to
\* 20, Competitive above 20 up to 30, Moderately Competitive above 30.
\* ------------------------------------------------------------------------
C18_CompetitionTiers ==
    (Returned /\ call.fn = "determine_competition_level"
        /\ py_int(replace_percent(call.success_rate)).exc = "none") =>
        LET rate == py_int(replace_percent(call.success_rate)).val IN
        /\ result.exc = "none"
        /\ rate <= 10 => result.val = "Extremely Competitive"
        /\ (10 < rate /\ rate <= 20) => result.val = "Very Competitive"
        /\ (20 < rate /\ rate <= 30) => result.val = "Competitive"
        /\ rate > 30 => result.val = "Moderately Competitive"

C18_Witness ==
    /\ Returned
    /\ call.fn = "determine_competition_level"
    /\ call.success_rate = <<"2", "0", "%">>
    /\ result = [exc |-> "none", val |-> "Very Competitive"]

\* ------------------------------------------------------------------------
\* The record builders
\* ------------------------------------------------------------------------
\* the scraper object update_all keeps under a name
SelfOf(scraper) ==
    CHOOSE self \in ScraperInstances :
        self.name = CASE scraper = "ukri" -> "UKRI"
                      [] scraper = "academies" -> "National Academies"
                      [] scraper = "foundations" -> "Charitable Foundations"

\* the top-level keys of a built record
BuiltKeys ==
    RequiredSet \cup {"subcategory", "key_info", "contact", "tags",
                      "last_updated", "scraped_from", "status"}

\* funding['funding_details'] and funding['application'] of a built record
FundingDetails(amount) ==
    [type |-> "dict", items |-> {"amount", "covers"}, amount |-> amount]

Application(deadline, next_deadline, frequency) ==
    [type |-> "dict",
     items |-> {"deadline", "next_deadline", "frequency",
                "application_url", "guidelines_url"},
     deadline |-> deadline, next_deadline |-> next_deadline,
     frequency |-> frequency]

estimate_success_rate(career_stage) ==
    CASE career_stage = "Early Career" -> <<"1", "5", "%">>
      [] career_stage = "Mid Career" -> <<"2", "0", "%">>
      [] career_stage = "Senior" -> <<"2", "5", "%">>
      [] career_stage = "All Stages" -> <<"1", "8", "%">>
      [] OTHER -> <<"1", "8", "%">>

\* the dict literal is evaluated top to bottom: the first call that raises
\* ends it
AcademiesScraper_funding(scheme, next_deadline) ==
    IF next_deadline.exc # "none" THEN [exc |-> next_deadline.exc]
    ELSE [exc |-> "none",
          val |-> [id |-> generate_id(SelfOf("academies"), scheme.title, <<"A", "c", "a", "d", "e", "m", "y">>),
                   keys |-> BuiltKeys,
                   title |-> scheme.title,
                   organization |-> <<>>,
                   category |-> "academies",
                   subcategory |-> "",
                   career_stage |-> scheme.career_stage,
                   funding_details |-> FundingDetails(scheme.amount),
                   application |-> Application(scheme.deadline, next_deadline.val,
                                               scheme.frequency),
                   key_info |->
                       [priority_level |->
                            determine_priority_level("academies", scheme.amount.max),
                        competition_level |-> "Very Competitive",
                        success_rate |-> estimate_success_rate(scheme.career_stage)]]]

AcademiesScraper_create_funding_object(scheme) ==
    AcademiesScraper_funding(
        scheme, calculate_next_deadline(scheme.deadline, scheme.frequency))

\* (competition_level is looked at only once the key is known to be there)
FoundationsScraper_funding(scheme, next_deadline, competition_level) ==
    IF next_deadline.exc # "none" THEN [exc |-> next_deadline.exc]
    \* scheme['success_rate'] of a scheme without the key
    ELSE IF "success_rate" \notin scheme.keys THEN [exc |-> "KeyError"]
    ELSE IF competition_level.exc # "none" THEN [exc |-> competition_level.exc]
    ELSE [exc |-> "none",
          val |-> [id |-> generate_id(SelfOf("foundations"), scheme.title, <<"F", "o", "u", "n", "d", "a", "t", "i", "o", "n">>),
                   keys |-> BuiltKeys,
                   title |-> scheme.title,
                   organization |-> <<>>,
                   category |-> "foundations",
                   subcategory |-> "",
                   career_stage |-> scheme.career_stage,
                   funding_details |-> FundingDetails(scheme.amount),
                   application |-> Application(scheme.deadline, next_deadline.val,
                                               scheme.frequency),
                   key_info |->
                       [priority_level |->
                            determine_priority_level("foundations", scheme.amount.max),
                        competition_level |-> competition_level.val,
                        success_rate |-> scheme.success_rate]]]

FoundationsScraper_create_funding_object(scheme) ==
    FoundationsScraper_funding(
        scheme, calculate_next_deadline(scheme.deadline, scheme.frequency),
        determine_competition_level(scheme.success_rate))

create_funding_object(scraper, scheme) ==
    IF scraper = "academies"
    THEN AcademiesScraper_create_funding_object(scheme)
    ELSE FoundationsScraper_create_funding_object(scheme)

\* the loop `fundings.append(self.create_funding_object(scheme))` over
\* what each scheme builds to: the first exception leaves the method
\* (a scrape method handing back what it built before the exception)
collect_fundings_keeps_built(built) ==
    [exc |-> "none",
     val |-> [i \in 1..(IF \E k \in 1..Len(built) : built[k].exc # "none"
                        THEN (CHOOSE k \in 1..Len(built) :
                                 /\ built[k].exc # "none"
                                 /\ \A j \in 1..(k - 1) : built[j].exc = "none") - 1
                        ELSE Len(built)) |-> built[i].val]]

collect_fundings(built) ==
    IF \E i \in 1..Len(built) : built[i].exc # "none"
    THEN [exc |-> built[CHOOSE i \in 1..Len(built) :
                           /\ built[i].exc # "none"
                           /\ \A j \in 1..(i - 1) : built[j].exc = "none"].exc]
    ELSE [exc |-> "none", val |-> [i \in 1..Len(built) |-> built[i].val]]

\* scrape_royal_society, scrape_wolfson_foundation and the like
scrape_schemes(scraper, schemes) ==
    collect_fundings([i \in 1..Len(schemes) |-> create_funding_object(scraper, schemes[i])])

\* self.academies and self.foundations (the first two of the four each)
academies ==
    << [id |-> "royal_society", name |-> <<"T", "h", "e", " ", "R", "o", "y", "a", "l", " ", "S", "o", "c", "i", "e", "t", "y">>],
       [id |-> "british_academy", name |-> <<"T", "h", "e", " ", "B", "r", "i", "t", "i", "s", "h", " ", "A", "c", "a", "d", "e", "m", "y">>] >>

foundations ==
    << [id |-> "wellcome_trust", name |-> <<"T", "h", "e", " ", "W", "e", "l", "l", "c", "o", "m", "e", " ", "T", "r", "u", "s", "t">>],
       [id |-> "leverhulme_trust", name |-> <<"T", "h", "e", " ", "L", "e", "v", "e", "r", "h", "u", "l", "m", "e", " ", "T", "r", "u", "s", "t">>] >>

\* the rest of scrape_academy / scrape_foundation: fundings is assigned
\* only when the scrape method returns, so an exception in it leaves the
\* empty list
add_organization_info(scraper, info, scraped) ==
    IF scraped.exc # "none" THEN <<>>
    ELSE [i \in 1..Len(scraped.val) |->
             [scraped.val[i] EXCEPT !.organization = info.name,
                                    !.category = scraper,
                                    !.subcategory = info.id]]

scrape_organization(scraper, info, schemes) ==
    add_organization_info(scraper, info, scrape_schemes(scraper, schemes))

scrape_academy(n, schemes) == scrape_organization("academies", academies[n], schemes)

scrape_foundation(n, schemes) == scrape_organization("foundations", foundations[n], schemes)

scrape_all_academies(input) == scrape_academy(1, input[1]) \o scrape_academy(2, input[2])

scrape_all_foundations(input) == scrape_foundation(1, input[1]) \o scrape_foundation(2, input[2])

\* self.councils (two of the nine)
councils ==
    [ahrc |-> [name |-> <<"A", "r", "t", "s", " ", "a", "n", "d", " ", "H", "u", "m", "a", "n", "i", "t", "i", "e", "s", " ", "R", "e", "s", "e", "a", "r", "c", "h", " ", "C", "o", "u", "n", "c", "i", "l">>],
     mrc |-> [name |-> <<"M", "e", "d", "i", "c", "a", "l", " ", "R", "e", "s", "e", "a", "r", "c", "h", " ", "C", "o", "u", "n", "c", "i", "l">>]]

\* the day the scraper runs
Today == [y |-> 2024, m |-> 6, d |-> 1]

extract_application_info ==
    Application(strftime_ymd(AddDays(Today, 90)), strftime_ymd(AddDays(Today, 365)),
                <<"A", "n", "n", "u", "a", "l">>)

extract_key_info ==
    [priority_level |-> "High",
     competition_level |-> "Very Competitive",
     success_rate |-> <<"N", "/", "A">>]

\* a page is what fetch_page and the extract_ methods get from one url
scrape_opportunity_details(page, council_id) ==
    IF page.fetch # "ok" THEN [exc |-> "RequestException"]
    ELSE IF page.title = <<>> THEN [exc |-> "none", found |-> FALSE]
    ELSE IF py_lower(page.title) = <<"f", "u", "n", "d", "i", "n", "g", " ", "f", "i", "n", "d", "e", "r">>
    THEN [exc |-> "none", found |-> FALSE]
    ELSE [exc |-> "none", found |-> TRUE,
          val |-> [id |-> generate_id(SelfOf("ukri"), page.title, councils[council_id].name),
                   keys |-> BuiltKeys,
                   title |-> page.title,
                   organization |-> councils[council_id].name,
                   category |-> "ukri",
                   subcategory |-> council_id,
                   career_stage |-> "All Stages",
                   funding_details |-> FundingDetails(page.amount),
                   application |-> extract_application_info,
                   key_info |-> extract_key_info]]

\* the loops of scrape_main_opportunities and scrape_council over the
\* links not scraped yet: a page that raises is logged and left out
RECURSIVE scrape_all_councils(_)
scrape_all_councils(pages) ==
    IF pages = <<>> THEN <<>>
    ELSE LET funding == scrape_opportunity_details(Head(pages), Head(pages).council_id) IN
         IF funding.exc = "none" /\ funding.found
         THEN <<funding.val>> \o scrape_all_councils(Tail(pages))
         ELSE scrape_all_councils(Tail(pages))

scrape_all(scraper, input) ==
    CASE scraper = "ukri" -> scrape_all_councils(input)
      [] scraper = "academies" -> scrape_all_academies(input)
      [] scraper = "foundations" -> scrape_all_foundations(input)

\* the files main() writes under individual_fundings, one per record
individual_files(prefix, fundings, io) ==
    IF io \in {"mkdir", "open"} THEN {}
    ELSE {[name |-> <<prefix, fundings[i].subcategory, fundings[i].id>>,
           file |-> IF io = "ok" THEN "json" ELSE "corrupt"] : i \in 1..Len(fundings)}

\* ------------------------------------------------------------------------
\* Specification of one run of a scraper's main(): scrape, write the
\* individual files, merge into the database
\* ------------------------------------------------------------------------
SchemeTitles == {<<"R", "e", "s", "e", "a", "r", "c", "h", " ", "G", "r", "a", "n", "t", "s">>, <<"R", "e", "s", "e", "a", "r", "c", "h", " ", "F", "e", "l", "l", "o", "w", "s", "h", "i", "p", "s">>}

SchemeAmounts == {[min |-> 50000, max |-> 100000], [min |-> 400000, max |-> 500000]}

SchemeDeadlines == {<<"2", "0", "2", "4", "-", "0", "9", "-", "1", "5">>, <<"N", "/", "A">>}

SchemeKeys ==
    {"title", "description", "career_stage", "amount", "deadline", "frequency", "tags"}

\* the raw schemes of an academy: no success_rate key
AcademySchemes ==
    [keys : {SchemeKeys},
     title : SchemeTitles,
     career_stage : {"Early Career", "Senior"},
     amount : SchemeAmounts,
     deadline : SchemeDeadlines,
     frequency : {<<"A", "n", "n", "u", "a", "l">>},
     success_rate : {<<>>}]

\* the raw schemes of a foundation: with a success rate, with 'N/A' for
\* it (Wolfson), or without the key (Wellcome, Leverhulme, Nuffield)
FoundationSchemes ==
    [keys : {SchemeKeys \cup {"success_rate"}},
     title : SchemeTitles,
     career_stage : {"All Stages"},
     amount : SchemeAmounts,
     deadline : SchemeDeadlines,
     frequency : {<<"A", "n", "n", "u", "a", "l">>},
     success_rate : {<<"2", "5", "%">>, <<"N", "/", "A">>}]
        \cup [keys : {SchemeKeys},
              title : SchemeTitles,
              career_stage : {"All Stages"},
              amount : SchemeAmounts,
              deadline : SchemeDeadlines,
              frequency : {<<"A", "n", "n", "u", "a", "l">>},
              success_rate : {<<>>}]

\* the opportunity pages of UKRI: fetched or not, with a title, without
\* one, or the funding finder page
OpportunityPages ==
    [fetch : {"ok", "error"},
     title : SchemeTitles \cup {<<>>, <<"F", "u", "n", "d", "i", "n", "g", " ", "F", "i", "n", "d", "e", "r">>},
     council_id : {"ahrc", "mrc"},
     amount : {[min |-> 0, max |-> 0], [min |-> 400000, max |-> 500000]}]

\* the scheme lists of the two organizations, MaxSchemes schemes in all
SchemeLists(schemes) ==
    UNION {{<<a, b>> : a \in [1..k[1] -> schemes], b \in [1..k[2] -> schemes]} :
              k \in {kk \in (0..MaxSchemes) \X (0..MaxSchemes) :
                        kk[1] + kk[2] <= MaxSchemes}}

InitBuild ==
    /\ disk = Missing
    /\ pre = Missing
    /\ batch = <<>>
    /\ ret = "none"
    /\ save = "none"
    /\ calls = 0
    /\ rec = Full("A", "v1")
    /\ vres = "none"
    /\ call \in [fn : {"main"}, scraper : {"ukri"},
                 input : UNION {[1..n -> OpportunityPages] : n \in 0..MaxSchemes}]
           \cup [fn : {"main"}, scraper : {"academies"},
                 input : SchemeLists(AcademySchemes)]
           \cup [fn : {"main"}, scraper : {"foundations"},
                 input : SchemeLists(FoundationSchemes)]
    /\ result = NoResult

\* main() of a scraper module that found nothing: a warning, no write
MainNothingFound ==
    /\ call.fn = "main"
    /\ result = NoResult
    /\ scrape_all(call.scraper, call.input) = <<>>
    /\ result' = [exc |-> "none", fundings |-> <<>>, files |-> {}]
    /\ UNCHANGED <<disk, pre, batch, ret, save, calls, rec, vres, call>>

\* main() of a scraper module that found records
Main ==
    /\ call.fn = "main"
    /\ result = NoResult
    /\ \E fundings \in {scrape_all(call.scraper, call.input)} :
          /\ fundings # <<>>
          /\ batch' = fundings
          /\ \E io_files \in IoOutcomes :
               result' = [exc |-> "none", fundings |-> fundings,
                          files |-> individual_files(call.scraper, fundings, io_files)]
          /\ \E io \in IoOutcomes :
               \E r \in {update_database(fundings, disk, io, 1)} :
                  /\ disk' = r.disk
                  /\ ret' = r.ret
                  /\ save' = r.save
    /\ pre' = disk
    /\ calls' = 1
    /\ UNCHANGED <<rec, vres, call>>

NextBuild == MainNothingFound \/ Main

SpecBuild == InitBuild /\ [][NextBuild]_vars

\* the raw schemes handed to the builder, organization after organization
InputSchemes == call.input[1] \o call.input[2]

DeadlineParses(scheme) == strptime_ymd(scheme.deadline).exc = "none"

RateParses(success_rate) == py_int(replace_percent(success_rate)).exc = "none"

\* ------------------------------------------------------------------------
\* C12: every record a builder produces (UKRI, Academies, Foundations) has
\* the id generate_id gives for its own title and final organization, so
\* two records of one title from two organizations have different ids and
\* a merge that succeeds stores both.
\* Academies and Foundations take the id from the literal 'Academy' /
\* 'Foundation' before the organization is set: violated.
\* ------------------------------------------------------------------------
C12_IdFromFinalOrganization ==
    (Returned /\ call.fn = "main") =>
        /\ \A i \in 1..Len(result.fundings) :
              result.fundings[i].id =
                  generate_id(SelfOf(call.scraper), result.fundings[i].title,
                              result.fundings[i].organization)
        /\ \A i, j \in 1..Len(result.fundings) :
              (/\ result.fundings[i].title = result.fundings[j].title
               /\ result.fundings[i].organization # result.fundings[j].organization) =>
                  /\ result.fundings[i].id # result.fundings[j].id
                  /\ ret = "True" =>
                        \E m, n \in 1..Len(disk.data.fundings) :
                            /\ m # n
                            /\ disk.data.fundings[m] = result.fundings[i]
                            /\ disk.data.fundings[n] = result.fundings[j]

\* the same statement for the UKRI builder alone: holds
UkriIdFromOrganization == call.scraper = "ukri" => C12_IdFromFinalOrganization

\* ------------------------------------------------------------------------
\* C16: a raw scheme of a foundation whose success_rate is no percentage
\* ("N/A") or is missing does not stop the build: when every deadline of
\* the run parses, every scheme of the run has its record, in order, with
\* key_info.success_rate the value the scheme had.
\* int('N/A') raises ValueError, a missing key KeyError, and
\* scrape_foundation then returns no record of that foundation: violated.
\* ------------------------------------------------------------------------
C16_BadSuccessRateNotFatal ==
    (/\ Returned
     /\ call.fn = "main"
     /\ call.scraper = "foundations"
     /\ \A i \in 1..Len(InputSchemes) : DeadlineParses(InputSchemes[i])) =>
        /\ Len(result.fundings) = Len(InputSchemes)
        /\ \A i \in 1..Len(InputSchemes) :
              /\ result.fundings[i].title = InputSchemes[i].title
              /\ "success_rate" \in InputSchemes[i].keys =>
                    result.fundings[i].key_info.success_rate
                        = InputSchemes[i].success_rate

\* the same statement for runs whose success rates all parse: holds
AllBuiltWhenRatesParse ==
    (call.fn = "main" /\ call.scraper = "foundations"
        /\ \E i \in 1..Len(InputSchemes) :
              \/ "success_rate" \notin InputSchemes[i].keys
              \/ ~RateParses(InputSchemes[i].success_rate))
    \/ C16_BadSuccessRateNotFatal

\* ------------------------------------------------------------------------
\* C19: in every built record of every source priority_level is the tier
\* of the record's funding_details.amount.max (by the table of its source;
\* for UKRI, which has no table of its own, by one of the two tables) and
\* competition_level is the tier of the record's key_info.success_rate
\* when that is a percentage.
\* UKRI writes the constants High / Very Competitive, Academies the
\* constant Very Competitive: violated.
\* ------------------------------------------------------------------------
C19_LevelsDerived ==
    (Returned /\ call.fn = "main") =>
        \A i \in 1..Len(result.fundings) :
            LET funding == result.fundings[i]
                max_amount == funding.funding_details.amount.max
            IN  /\ funding.category = "academies" =>
                      funding.key_info.priority_level
                          = TierByThresholds(max_amount, 50000, 200000, 500000)
                /\ funding.category = "foundations" =>
                      funding.key_info.priority_level
                          = TierByThresholds(max_amount, 200000, 500000, 1000000)
                /\ funding.category = "ukri" =>
                      funding.key_info.priority_level
                          \in {TierByThresholds(max_amount, 50000, 200000, 500000),
                               TierByThresholds(max_amount, 200000, 500000, 1000000)}
                /\ RateParses(funding.key_info.success_rate) =>
                      funding.key_info.competition_level
                          = determine_competition_level(funding.key_info.success_rate).val

\* the same statement for the Foundations builder alone: holds
FoundationsLevelsDerived == call.scraper = "foundations" => C19_LevelsDerived

\* ------------------------------------------------------------------------
\* generate_summary_report
\* ------------------------------------------------------------------------
\* an amount as Python holds it: a number or a string
PyNumber(n) == [type |-> "int", val |-> n]

PyString(s) == [type |-> "str", val |-> s]

\* sum(values): 0 + v1 + v2 + ..., TypeError at the first value that is
\* no number
RECURSIVE py_sum(_, _)
py_sum(values, start) ==
    IF values = <<>> THEN [exc |-> "none", val |-> start]
    ELSE IF Head(values).type # "int" THEN [exc |-> "TypeError"]
    ELSE py_sum(Tail(values), start + Head(values).val)

\* counts.get(key, 0) + 1 over the records, for the keys that occur
CountsBy(fundings, field) ==
    [k \in {fundings[i][field] : i \in 1..Len(fundings)} |->
        Cardinality({i \in 1..Len(fundings) : fundings[i][field] = k})]

\* (deadline - current_date).days: deadline is midnight of its day, and
\* the difference is rounded down to whole days
days_until(deadline, current_date) ==
    ToOrdinal(deadline) - ToOrdinal(current_date.date)
        - (IF current_date.midnight THEN 0 ELSE 1)

\* the loop counting deadlines in the next 30 days; a deadline that does
\* not parse is passed over by the bare except
upcoming_deadlines_of(fundings, current_date) ==
    Cardinality({i \in 1..Len(fundings) :
        LET deadline == strptime_ymd(fundings[i].deadline) IN
        /\ deadline.exc = "none"
        /\ days_until(deadline.dt, current_date) <= 30
        /\ days_until(deadline.dt, current_date) >= 0})

generate_summary_report(fundings, current_date, report_file, io) ==
    LET category_counts == CountsBy(fundings, "category")
        career_stage_counts == CountsBy(fundings, "career_stage")
        total_min_funding ==
            py_sum([i \in 1..Len(fundings) |-> fundings[i].amount.min], 0)
        total_max_funding ==
            py_sum([i \in 1..Len(fundings) |-> fundings[i].amount.max], 0)
    IN
    IF total_min_funding.exc # "none"
    THEN [exc |-> total_min_funding.exc, report_file |-> report_file]
    ELSE IF total_max_funding.exc # "none"
    THEN [exc |-> total_max_funding.exc, report_file |-> report_file]
    ELSE
    LET report ==
            [total_opportunities |-> Len(fundings),
             category_breakdown |-> category_counts,
             career_stage_breakdown |-> career_stage_counts,
             funding_totals |-> [min_total_gbp |-> total_min_funding.val,
                                 max_total_gbp |-> total_max_funding.val],
             upcoming_deadlines_30_days |->
                 upcoming_deadlines_of(fundings, current_date),
             data_sources |-> <<"ukri", "academies", "foundations">>]
    IN  [exc |-> "none", report_file |-> save_json(report, report_file, io).disk]

\* ------------------------------------------------------------------------
\* Specification of generate_summary_report as a function of the batch,
\* the clock and the file system
\* ------------------------------------------------------------------------
SummaryAmounts ==
    {[min |-> PyNumber(100), max |-> PyNumber(200)],
     [min |-> PyString(<<"N", "/", "A">>), max |-> PyNumber(300)],
     [min |-> PyNumber(100), max |-> PyString(<<"N", "/", "A">>)]}

\* deadlines yesterday, today, 30 and 31 days ahead, and none
SummaryDeadlines ==
    {strftime_ymd(AddDays(Today, k)) : k \in {0 - 1, 0, 30, 31}} \cup {<<"N", "/", "A">>}

\* what the report reads of a record
SummaryRecords ==
    [category : {"ukri", "academies"},
     career_stage : {"All Stages"},
     amount : SummaryAmounts,
     deadline : SummaryDeadlines]

InitSummary ==
    /\ disk = Missing
    /\ pre = Missing
    /\ batch = <<>>
    /\ ret = "none"
    /\ save = "none"
    /\ calls = 0
    /\ rec = Full("A", "v1")
    /\ vres = "none"
    /\ call \in [fn : {"generate_summary_report"},
                 fundings : UNION {[1..n -> SummaryRecords] : n \in 0..MaxFundings},
                 current_date : [date : {Today}, midnight : BOOLEAN]]
    /\ result = NoResult

GenerateSummaryReport ==
    /\ call.fn = "generate_summary_report"
    /\ result = NoResult
    /\ \E io \in IoOutcomes :
          \E r \in {generate_summary_report(call.fundings, call.current_date, Missing, io)} :
              result' = [exc |-> r.exc, report_file |-> r.report_file, io |-> io]
    /\ UNCHANGED <<disk, pre, batch, ret, save, calls, rec, vres, call>>

NextSummary == GenerateSummaryReport

SpecSummary == InitSummary /\ [][NextSummary]_vars

\* what a value adds to a total when a value that is no number counts 0
NumericOrZero(v) == IF v.type = "int" THEN v.val ELSE 0

RECURSIVE SumOf(_)
SumOf(ns) == IF ns = <<>> THEN 0 ELSE Head(ns) + SumOf(Tail(ns))

AllNumeric(fundings) ==
    \A i \in 1..Len(fundings) :
        fundings[i].amount.min.type = "int" /\ fundings[i].amount.max.type = "int"

\* ------------------------------------------------------------------------
\* C20: generate_summary_report does not raise on an amount that is no
\* number: such a min or max adds 0 to its total, so the batch
\* [{min 100, max 200}, {min "N/A", max 300}] gives totals 100 and 500,
\* and the report is written.
\* sum() raises TypeError at the first "N/A": violated.
\* ------------------------------------------------------------------------
C20_NonNumericCountsZero ==
    (Returned /\ call.fn = "generate_summary_report") =>
        /\ result.exc = "none"
        /\ result.io = "ok" =>
              /\ result.report_file.file = "json"
              /\ result.report_file.data.funding_totals.min_total_gbp =
                    SumOf([i \in 1..Len(call.fundings) |->
                              NumericOrZero(call.fundings[i].amount.min)])
              /\ result.report_file.data.funding_totals.max_total_gbp =
                    SumOf([i \in 1..Len(call.fundings) |->
                              NumericOrZero(call.fundings[i].amount.max)])
              /\ (/\ Len(call.fundings) = 2
                  /\ call.fundings[1].amount = [min |-> PyNumber(100), max |-> PyNumber(200)]
                  /\ call.fundings[2].amount =
                        [min |-> PyString(<<"N", "/", "A">>), max |-> PyNumber(300)]) =>
                    result.report_file.data.funding_totals =
                        [min_total_gbp |-> 100, max_total_gbp |-> 500]

\* the same statement for batches whose amounts are all numbers: holds
TotalsWhenAllNumeric == AllNumeric(call.fundings) => C20_NonNumericCountsZero

\* whole calendar days from the day of current_date to the deadline's day
CalendarDaysAhead(deadline) ==
    ToOrdinal(strptime_ymd(deadline).dt) - ToOrdinal(call.current_date.date)

\* the records whose deadline is a date 0 to 30 days ahead
DueWithin30Days ==
    {i \in 1..Len(call.fundings) :
        /\ strptime_ymd(call.fundings[i].deadline).exc = "none"
        /\ CalendarDaysAhead(call.fundings[i].deadline) \in 0..30}

\* ------------------------------------------------------------------------
\* C21: upcoming_deadlines_30_days counts exactly the records whose
\* deadline parses as a date 0 to 30 days from now, both ends included (a
\* deadline dated today and one 30 days ahead count, one 31 days ahead or
\* past does not); records whose deadline does not parse are left out and
\* nothing is raised for them.
\* datetime.now() carries the time of day and .days rounds down, so at any
\* moment after midnight today's deadline is -1 days away and the one 31
\* days ahead is 30 days away: violated.
\* ------------------------------------------------------------------------
C21_UpcomingDeadlinesCounted ==
    (/\ Returned
     /\ call.fn = "generate_summary_report"
     /\ AllNumeric(call.fundings)) =>
        /\ result.exc = "none"
        /\ result.io = "ok" =>
              result.report_file.data.upcoming_deadlines_30_days
                  = Cardinality(DueWithin30Days)

\* the same statement for a run at midnight sharp: holds
UpcomingCountedAtMidnight == call.current_date.midnight => C21_UpcomingDeadlinesCounted

\* ------------------------------------------------------------------------
\* FundingDataUpdater: update_all, update_specific
\* ------------------------------------------------------------------------
\* self.scrapers, in the order of the dict
ScraperNames == <<"ukri", "academies", "foundations">>

\* a cycle in progress: the records collected, the individual files on
\* disk and the steps taken so far
NewCycle == [all_fundings |-> <<>>, files |-> {}, log |-> <<>>]

\* f"{scraper_name}_{funding['subcategory']}_{funding['id']}.json"
individual_file_name(scraper_name, funding) ==
    <<scraper_name, funding.subcategory, funding.id>>

\* save_json(funding, file_path) on the directory of individual files: a
\* file of that name is replaced when the write gets as far as opening it
write_individual_file(files, name, funding, io) ==
    IF io \in {"mkdir", "open"} THEN files
    ELSE {f \in files : f.name # name}
             \cup {[name |-> name, file |-> IF io = "ok" THEN "json" ELSE "corrupt",
                    data |-> funding]}

\* (the loop giving up after the first record)
RECURSIVE save_individual_fundings_first_only(_, _, _, _)
save_individual_fundings_first_only(fundings, scraper_name, files, io) ==
    IF fundings = <<>> THEN [exc |-> "none", files |-> files]
    ELSE IF {"subcategory", "id"} \subseteq Head(fundings).keys
    THEN [exc |-> "none",
          files |-> write_individual_file(
                        files, individual_file_name(scraper_name, Head(fundings)),
                        Head(fundings), io)]
    ELSE [exc |-> "KeyError", files |-> files]

\* save_individual_fundings: one save_json per record; a record without
\* subcategory or id raises KeyError and ends the loop
RECURSIVE save_individual_fundings(_, _, _, _)
save_individual_fundings(fundings, scraper_name, files, io) ==
    IF fundings = <<>> THEN [exc |-> "none", files |-> files]
    ELSE IF {"subcategory", "id"} \subseteq Head(fundings).keys
    THEN save_individual_fundings(
             Tail(fundings), scraper_name,
             write_individual_file(
                 files, individual_file_name(scraper_name, Head(fundings)),
                 Head(fundings), io),
             io)
    ELSE [exc |-> "KeyError", files |-> files]

\* `all_fundings.extend(fundings); self.save_individual_fundings(...)`:
\* the records are collected before their files are saved, and an
\* exception of the saving is logged like one of the scraper
records_found(scraper_name, fundings, cycle, saved) ==
    [all_fundings |-> cycle.all_fundings \o fundings,
     files |-> saved.files,
     log |-> Append(Append(cycle.log, <<"scraped", scraper_name>>),
                    IF saved.exc = "none" THEN <<"files", scraper_name>>
                    ELSE <<"failed", scraper_name>>)]

\* (the exception of one scraper costing the records collected so far)
run_scraper_unguarded(scraper_name, outcome, io_files, cycle) ==
    IF outcome.raises
    THEN [cycle EXCEPT !.all_fundings = <<>>,
                       !.log = Append(@, <<"failed", scraper_name>>)]
    ELSE IF outcome.fundings = <<>>
    THEN [cycle EXCEPT !.log = Append(@, <<"scraped", scraper_name>>)]
    ELSE records_found(scraper_name, outcome.fundings, cycle,
                       save_individual_fundings(outcome.fundings, scraper_name,
                                                cycle.files, io_files))

\* the body of the loop over the scrapers: scrape, and when records came
\* back extend all_fundings and save the individual files; an exception
\* of the scraper is logged
run_scraper(scraper_name, outcome, io_files, cycle) ==
    IF outcome.raises
    THEN [cycle EXCEPT !.log = Append(@, <<"failed", scraper_name>>)]
    ELSE IF outcome.fundings = <<>>
    THEN [cycle EXCEPT !.log = Append(@, <<"scraped", scraper_name>>)]
    ELSE records_found(scraper_name, outcome.fundings, cycle,
                       save_individual_fundings(outcome.fundings, scraper_name,
                                                cycle.files, io_files))

\* the loop over scraper_names; a name the updater does not know is
\* logged and passed over
RECURSIVE run_scrapers(_, _, _, _)
run_scrapers(scraper_names, outcomes, io_files, cycle) ==
    IF scraper_names = <<>> THEN cycle
    ELSE IF Head(scraper_names) \notin RangeOf(ScraperNames)
    THEN run_scrapers(Tail(scraper_names), outcomes, io_files,
                      [cycle EXCEPT !.log = Append(@, <<"unknown", Head(scraper_names)>>)])
    ELSE run_scrapers(Tail(scraper_names), outcomes, io_files,
                      run_scraper(Head(scraper_names), outcomes[Head(scraper_names)],
                                  io_files, cycle))

\* what a cycle leaves behind when nothing was collected
nothing_collected(cycle, d, report_file) ==
    [exc |-> "none", ret |-> "False", merge |-> "none", disk |-> d,
     save |-> "not_attempted", report_file |-> report_file,
     all_fundings |-> cycle.all_fundings, files |-> cycle.files,
     log |-> cycle.log]

\* ... and after update_database, without a report
merged_only(cycle, merged, report_file) ==
    [exc |-> "none", ret |-> IF merged.ret = "True" THEN "True" ELSE "False",
     merge |-> merged.ret, disk |-> merged.disk,
     save |-> merged.save, report_file |-> report_file,
     all_fundings |-> cycle.all_fundings, files |-> cycle.files,
     log |-> Append(cycle.log, <<"merge", cycle.all_fundings>>)]

\* ... and after update_database and generate_summary_report, whose
\* exception nothing in update_all catches
merged_and_reported(cycle, merged, report) ==
    [exc |-> report.exc, ret |-> IF report.exc = "none" THEN "True" ELSE "raise",
     merge |-> merged.ret, disk |-> merged.disk,
     save |-> merged.save, report_file |-> report.report_file,
     all_fundings |-> cycle.all_fundings, files |-> cycle.files,
     log |-> Append(Append(cycle.log, <<"merge", cycle.all_fundings>>),
                    <<"report", cycle.all_fundings>>)]

\* `if update_database(...): self.generate_summary_report(all_fundings)`
update_all_report(cycle, merged, current_date, report_file, io_report) ==
    IF merged.ret = "True"
    THEN merged_and_reported(
             cycle, merged,
             generate_summary_report(cycle.all_fundings, current_date,
                                     report_file, io_report))
    ELSE merged_only(cycle, merged, report_file)

\* update_all once the scrapers have run
update_all_finish(cycle, d, io, now, current_date, report_file, io_report) ==
    IF cycle.all_fundings = <<>> THEN nothing_collected(cycle, d, report_file)
    ELSE update_all_report(cycle, update_database(cycle.all_fundings, d, io, now),
                           current_date, report_file, io_report)

update_all(outcomes, d, io_files, io, now, current_date, report_file, io_report) ==
    update_all_finish(run_scrapers(ScraperNames, outcomes, io_files, NewCycle),
                      d, io, now, current_date, report_file, io_report)

\* update_specific once the scrapers have run: the merge and nothing else
update_specific_finish(cycle, d, io, now, report_file) ==
    IF cycle.all_fundings = <<>> THEN nothing_collected(cycle, d, report_file)
    ELSE merged_only(cycle, update_database(cycle.all_fundings, d, io, now), report_file)

update_specific(scraper_names, outcomes, d, io_files, io, now, report_file) ==
    update_specific_finish(run_scrapers(scraper_names, outcomes, io_files, NewCycle),
                           d, io, now, report_file)

\* ------------------------------------------------------------------------
\* Specification of one update cycle of FundingDataUpdater
\* ------------------------------------------------------------------------
\* the records a scraper can come back with: one the store may hold
\* already (A), a new one (C), and one that does not validate (D, without
\* description); each carries what the summary report reads
CycleRecord(kind, scraper_name) ==
    [id |-> kind, ver |-> "v1",
     keys |-> IF kind = "D"
              THEN (RequiredSet \cup {"subcategory"}) \ {"description"}
              ELSE RequiredSet \cup {"subcategory"},
     funding_details |-> Dict({"amount"}),
     application |-> Dict({"deadline"}),
     category |-> scraper_name,
     subcategory |-> "sub",
     career_stage |-> "All Stages",
     amount |-> [min |-> PyNumber(100), max |-> PyNumber(200)],
     deadline |-> <<"N", "/", "A">>]

RecordKinds == {"A", "C", "D"}

\* what the three scrapers do in a cycle: each raises or returns records,
\* MaxFound records in all
FoundKinds == UNION {[1..n -> RecordKinds] : n \in 0..MaxFound}

CycleOutcomes ==
    {[n \in RangeOf(ScraperNames) |->
         [raises |-> o[n].raises,
          fundings |-> [i \in 1..Len(o[n].found) |-> CycleRecord(o[n].found[i], n)]]] :
       o \in {oo \in [RangeOf(ScraperNames) -> [raises : BOOLEAN, found : FoundKinds]] :
                 /\ \A n \in RangeOf(ScraperNames) : oo[n].raises => oo[n].found = <<>>
                 /\ Len(oo["ukri"].found) + Len(oo["academies"].found)
                        + Len(oo["foundations"].found) <= MaxFound}}

\* the --scrapers lists, and one naming a scraper the updater lacks
NameLists ==
    {<<"ukri">>, <<"foundations", "academies">>,
     <<"unknown", "ukri", "academies", "foundations">>}

\* the store a cycle finds: none, one it cannot read, one holding A and B
CycleStores ==
    {Missing, Unreadable, File("json", JsonDict(DbKeys, StoredAB, Len(StoredAB), 0))}

InitCycle ==
    /\ disk \in CycleStores
    /\ pre = Missing
    /\ batch = <<>>
    /\ ret = "none"
    /\ save = "none"
    /\ calls = 0
    /\ rec = Full("A", "v1")
    /\ vres = "none"
    /\ call \in [fn : {"update_all"}, scraper_names : {ScraperNames},
                 outcomes : CycleOutcomes]
           \cup [fn : {"update_specific"}, scraper_names : NameLists,
                 outcomes : CycleOutcomes]
    /\ result = NoResult

\* the moment the report is generated
ReportTime == [date |-> Today, midnight |-> FALSE]

UpdateAll ==
    /\ call.fn = "update_all"
    /\ result = NoResult
    /\ \E io_files \in IoOutcomes, io \in IoOutcomes, io_report \in IoOutcomes :
          \E r \in {update_all(call.outcomes, disk, io_files, io, 1,
                               ReportTime, Missing, io_report)} :
              /\ result' = r
              /\ disk' = r.disk
              /\ ret' = r.merge
              /\ save' = r.save
              /\ batch' = r.all_fundings
    /\ pre' = disk
    /\ calls' = 1
    /\ UNCHANGED <<rec, vres, call>>

UpdateSpecific ==
    /\ call.fn = "update_specific"
    /\ result = NoResult
    /\ \E io_files \in IoOutcomes, io \in IoOutcomes :
          \E r \in {update_specific(call.scraper_names, call.outcomes, disk,
                                    io_files, io, 1, Missing)} :
              /\ result' = r
              /\ disk' = r.disk
              /\ ret' = r.merge
              /\ save' = r.save
              /\ batch' = r.all_fundings
    /\ pre' = disk
    /\ calls' = 1
    /\ UNCHANGED <<rec, vres, call>>

NextCycle == UpdateAll \/ UpdateSpecific

SpecCycle == InitCycle /\ [][NextCycle]_vars

CycleReturned == Returned /\ call.fn \in {"update_all", "update_specific"}

\* the positions of the steps of one kind in the cycle's log
StepsOf(kind) == {i \in 1..Len(result.log) : result.log[i][1] = kind}

\* the scrapers the cycle is asked to run, in order
RECURSIVE KnownNames(_)
KnownNames(scraper_names) ==
    IF scraper_names = <<>> THEN <<>>
    ELSE IF Head(scraper_names) \in RangeOf(ScraperNames)
    THEN <<Head(scraper_names)>> \o KnownNames(Tail(scraper_names))
    ELSE KnownNames(Tail(scraper_names))

\* what the scrapers that did not raise returned, in the order they ran
RECURSIVE CollectedFrom(_)
CollectedFrom(scraper_names) ==
    IF scraper_names = <<>> THEN <<>>
    ELSE call.outcomes[Head(scraper_names)].fundings \o CollectedFrom(Tail(scraper_names))

Collected == CollectedFrom(KnownNames(call.scraper_names))

\* ------------------------------------------------------------------------
\* C22: in a cycle that collected a record and whose merge succeeded, by
\* update_all or by update_specific, the summary report is generated
\* exactly once, after the merge and over the whole collected batch; when
\* the merge reports failure it is not generated.
\* update_specific returns the result of the merge and never generates
\* the report: violated.
\* ------------------------------------------------------------------------
C22_ReportOncePerCycle ==
    (CycleReturned /\ Collected # <<>>) =>
        /\ result.merge = "True" =>
              /\ Cardinality(StepsOf("report")) = 1
              /\ \A r \in StepsOf("report") :
                    /\ \E m \in StepsOf("merge") : m < r
                    /\ result.log[r][2] = Collected
              /\ result.report_file.file = "json" =>
                    result.report_file.data.total_opportunities = Len(Collected)
        /\ result.merge # "True" => StepsOf("report") = {}

\* the same statement for update_all alone: holds
ReportOnceInUpdateAll == call.fn = "update_all" => C22_ReportOncePerCycle

\* ------------------------------------------------------------------------
\* C23: for every record a scraper returned in the cycle the file named
\* by scraper, subcategory and id is written before the merge and whatever
\* the merge does (also for a record the merge skips, and when the merge
\* fails); records of one scraper, subcategory and id share the name, and
\* the file holds the last of them.
\* (Written: whenever the file system lets the write through.)
\* ------------------------------------------------------------------------
C23_IndividualFilesWritten ==
    CycleReturned =>
        /\ \A n \in RangeOf(KnownNames(call.scraper_names)) :
              call.outcomes[n].fundings # <<>> =>
                  /\ \E f \in StepsOf("files") : result.log[f][2] = n
                  /\ \A f \in StepsOf("files"), m \in StepsOf("merge") :
                        result.log[f][2] = n => f < m
        /\ \A f \in result.files :
              \E i \in 1..Len(Collected) :
                  /\ f.name = <<Collected[i].category, Collected[i].subcategory,
                                Collected[i].id>>
                  /\ f.data = Collected[i]
        /\ (\E f \in result.files : f.file = "json") =>
              \A i \in 1..Len(Collected) :
                  \E f \in result.files :
                      /\ f.name = <<Collected[i].category, Collected[i].subcategory,
                                    Collected[i].id>>
                      /\ f.file = "json"
        /\ \A f, g \in result.files : f.name = g.name => f = g

\* files are there after a merge that failed and for a record the merge
\* skipped as a duplicate
C23_Witness ==
    /\ CycleReturned
    /\ result.merge = "False"
    /\ Len(Collected) = 2
    /\ Collected[1] = Collected[2]
    /\ Cardinality(result.files) = 1
    /\ \A f \in result.files : f.file = "json"

C23_WitnessSkipped ==
    /\ CycleReturned
    /\ result.merge = "True"
    /\ pre.file = "json"
    /\ \E f \in result.files : f.file = "json" /\ f.data.id = "A"
    /\ \E f \in result.files : f.file = "json" /\ f.data.id = "D"
    /\ disk.data.fundings = pre.data.fundings

\* ------------------------------------------------------------------------
\* C24: an exception of one scraper does not end the cycle: update_all and
\* update_specific catch it, every other scraper asked for still runs,
\* and what the others returned is merged into the store.
\* ------------------------------------------------------------------------
C24_ScraperErrorContained ==
    CycleReturned =>
        /\ result.exc = "none"
        /\ \A n \in RangeOf(KnownNames(call.scraper_names)) :
              \E i \in 1..Len(result.log) :
                  /\ result.log[i][2] = n
                  /\ result.log[i][1] = IF call.outcomes[n].raises
                                        THEN "failed" ELSE "scraped"
        /\ result.all_fundings = Collected
        /\ Collected # <<>> =>
              /\ StepsOf("merge") # {}
              /\ batch = Collected
              /\ result.merge = "True" =>
                    \A i \in 1..Len(Collected) :
                        PassesValidation(Collected[i]) =>
                            Collected[i].id \in IdsOf(disk.data.fundings)

\* the first scraper returns a record, the second raises, the third
\* returns one, and both records are in the store
C24_Witness ==
    /\ CycleReturned
    /\ call.scraper_names = ScraperNames
    /\ call.outcomes["academies"].raises
    /\ Len(call.outcomes["ukri"].fundings) = 1
    /\ Len(call.outcomes["foundations"].fundings) = 1
    /\ result.merge = "True"
    /\ pre.file = "missing"
    /\ IdsOf(disk.data.fundings) = {"A", "C"}

\* ------------------------------------------------------------------------
\* Specification of two update_database calls on one store file, each by
\* a process of its own: a call reads the store (load_json), merges in
\* memory and rewrites the file (save_json); nothing locks the file in
\* between, and a process can be killed at either point
\* ------------------------------------------------------------------------
Procs == {1, 2}

RaceStores == {Missing, File("json", JsonDict(DbKeys, StoredAB, Len(StoredAB), 0))}

InitRace ==
    /\ disk \in RaceStores
    /\ pre = disk
    /\ batch = <<>>
    /\ ret = "none"
    /\ save = "none"
    /\ calls = 0
    /\ rec = Full("A", "v1")
    /\ vres = "none"
    /\ call \in [fn : {"update_database"}, new_fundings : [Procs -> Batches]]
    /\ result = [exc |-> "none",
                 pc |-> [p \in Procs |-> "start"],
                 loaded |-> [p \in Procs |-> [exc |-> "none", val |-> NoData]],
                 found |-> [p \in Procs |-> Missing],
                 ret |-> [p \in Procs |-> "none"],
                 save |-> [p \in Procs |-> "none"],
                 overlapped |-> FALSE]

\* `database = load_json(database_path)`
Load(p) ==
    /\ result.pc[p] = "start"
    /\ result' = [result EXCEPT !.pc[p] = "loaded",
                                !.loaded[p] = load_json(disk),
                                !.found[p] = disk,
                                !.overlapped = @ \/ \E q \in Procs : result.pc[q] = "loaded"]
    /\ UNCHANGED <<disk, pre, batch, ret, save, calls, rec, vres, call>>

\* the rest of update_database, from the loaded database to the return
Write(p) ==
    /\ result.pc[p] = "loaded"
    /\ \E io \in IoOutcomes :
          \E r \in {update_database_loaded(call.new_fundings[p], result.loaded[p],
                                           disk, io, calls + 1)} :
              /\ disk' = r.disk
              /\ result' = [result EXCEPT !.pc[p] = "returned",
                                          !.ret[p] = r.ret,
                                          !.save[p] = r.save]
    /\ calls' = calls + 1
    /\ UNCHANGED <<pre, batch, ret, save, rec, vres, call>>

\* the process ends before save_json has opened the file
KilledBeforeRewrite(p) ==
    /\ result.pc[p] = "loaded"
    /\ result' = [result EXCEPT !.pc[p] = "killed", !.save[p] = "not_attempted"]
    /\ UNCHANGED <<disk, pre, batch, ret, save, calls, rec, vres, call>>

\* what a rewrite leaves when the process ends after open(.., 'w') has
\* truncated the file: the part of the text written so far, or all of it
interrupted_write(written) == {Corrupt, written}

\* the process ends inside save_json
KilledDuringRewrite(p) ==
    /\ result.pc[p] = "loaded"
    /\ \E r \in {update_database_loaded(call.new_fundings[p], result.loaded[p],
                                        disk, "ok", calls + 1)} :
          /\ r.save # "not_attempted"
          /\ disk' \in interrupted_write(r.disk)
    /\ result' = [result EXCEPT !.pc[p] = "killed", !.save[p] = "interrupted"]
    /\ calls' = calls + 1
    /\ UNCHANGED <<pre, batch, ret, save, rec, vres, call>>

NextRace == \E p \in Procs : Load(p) \/ Write(p)

SpecRace == InitRace /\ [][NextRace]_vars

NextKill ==
    \E p \in Procs :
        Load(p) \/ Write(p) \/ KilledBeforeRewrite(p) \/ KilledDuringRewrite(p)

SpecKill == InitRace /\ [][NextKill]_vars

\* the ids in the store file as it is now
StoreIds == IF disk.file = "json" THEN IdsOf(stored_fundings(disk.data)) ELSE {}

\* the ids the call of process p appends: those of its valid batch records
\* that the database it loaded does not hold
AdmittedBy(p) ==
    IdsOf(SelectSeq(call.new_fundings[p], PassesValidation))
        \ existing_ids_of(result.loaded[p].val)

Succeeded(p) == result.ret[p] = "True"

\* ------------------------------------------------------------------------
\* C25: update_database takes no lock. When the two calls run one after
\* the other, every record admitted by a call that returned True is in
\* the store from then on; when both load before either saves, both can
\* return True with the records of the first saver missing.
\* The first half is violated: a later call whose write fails during the
\* dump (C6) leaves a truncated store without the records of the earlier
\* successful call.
\* ------------------------------------------------------------------------
C25_SequentialCyclesKeepAdmitted ==
    ~result.overlapped =>
        \A p \in Procs : Succeeded(p) => AdmittedBy(p) \subseteq StoreIds

\* ... holds as long as no write fails part-way
SequentialKeepsAdmittedWhenWritesComplete ==
    (\A p \in Procs : result.save[p] # "dump") => C25_SequentialCyclesKeepAdmitted

\* the lost update of two overlapping calls, which TLC reaches
LostUpdate ==
    /\ result.overlapped
    /\ \A p \in Procs : Succeeded(p)
    /\ \E p \in Procs : ~(AdmittedBy(p) \subseteq StoreIds)

NoLostUpdate == ~LostUpdate

\* the records the store held before either call
StoredBefore == IF pre.file = "json" THEN stored_fundings(pre.data) ELSE <<>>

\* process q has made the call that found the store as p's interrupted
\* rewrite left it, and nothing has written since
NextCallAfterInterrupt(p, q) ==
    /\ result.pc[p] = "killed"
    /\ result.save[p] = "interrupted"
    /\ result.pc[q] = "returned"
    /\ result.found[q].file = "corrupt"

\* ------------------------------------------------------------------------
\* C26: a process killed before save_json opens the file leaves the store
\* as it was; one killed during the rewrite can leave a file that does
\* not parse. The next update_database call takes that file for the empty
\* database and does not fail because of it; once it has returned True
\* the store holds the valid records of its batch only, so a record
\* stored before the interrupted call is there only if the batch brought
\* it again.
\* ------------------------------------------------------------------------
C26_InterruptedRewrite ==
    /\ (\A p \in Procs : result.save[p] \in {"none", "not_attempted"}) => disk = pre
    /\ \A p \in Procs :
          (result.pc[p] = "killed" /\ result.save[p] = "interrupted"
              /\ \A q \in Procs \ {p} : result.pc[q] = "start")
          => (disk = Corrupt \/ (disk.file = "json" /\ disk # pre))
    /\ \A p, q \in Procs :
          NextCallAfterInterrupt(p, q) =>
              /\ result.loaded[q].exc = "none"
              /\ result.ret[q] = "False" =>
                    \/ result.save[q] \in {"mkdir", "open", "dump"}
                    \/ \E i \in 1..Len(call.new_fundings[q]) :
                          validate_funding_data(call.new_fundings[q][i]) = "TypeError"
              /\ result.ret[q] = "True" =>
                    /\ disk.file = "json"
                    /\ disk.data.fundings =
                           SelectSeq(call.new_fundings[q], PassesValidation)
                    /\ \A i \in 1..Len(StoredBefore) :
                          StoredBefore[i] \notin RangeOf(call.new_fundings[q])
                              => StoredBefore[i] \notin RangeOf(disk.data.fundings)

\* the store held A and B, the first call was killed while rewriting it,
\* the next call brought C and returned True: the store holds C alone
C26_Witness ==
    /\ NextCallAfterInterrupt(1, 2)
    /\ StoredBefore = StoredAB
    /\ result.ret[2] = "True"
    /\ StoreIds = {"C"}

\* ------------------------------------------------------------------------
\* UKRIScraper: the listing loops of scrape_all_councils
\* ------------------------------------------------------------------------
\* `max_pages = 15`
max_pages == 15

\* self.councils, in the order of the dict
CouncilIds ==
    <<"ahrc", "bbsrc", "esrc", "epsrc", "mrc", "nerc", "stfc", "innovate_uk",
      "research_england">>

\* An opportunity url is a number here. None of them carries the keyword
\* of a council, nor does its page, so determine_council_from_url comes
\* to its default
determine_council_from_url(url) == "ahrc"

\* what scrape_opportunity_details does with a url: it returns a record,
\* returns None (no title, or the funding finder), or raises
DetailOutcomes == {"record", "none", "raise"}

scrape_opportunity_details_of(url, council_id) ==
    [scraped_from |-> url, category |-> "ukri", subcategory |-> council_id]

\* (the loop scraping a link without looking at scraped_urls)
RECURSIVE scrape_links_unchecked(_, _, _, _)
scrape_links_unchecked(links, council_of, outcomes, st) ==
    IF links = <<>> THEN st
    ELSE scrape_links_unchecked(
             Tail(links), council_of, outcomes,
             [scraped_urls |-> st.scraped_urls \cup {Head(links)},
              new_links_found |-> st.new_links_found + 1,
              detail_scraped |-> Append(st.detail_scraped, Head(links)),
              raised |-> IF outcomes[Head(links)] = "raise"
                         THEN st.raised \cup {Head(links)} ELSE st.raised,
              fundings |-> IF outcomes[Head(links)] = "record"
                           THEN Append(st.fundings,
                                       scrape_opportunity_details_of(
                                           Head(links), council_of[Head(links)]))
                           ELSE st.fundings])

\* `for link in opportunity_links`: a link in scraped_urls is passed
\* over; any other is added to scraped_urls and then detail-scraped, and
\* an exception of the detail scrape is logged
RECURSIVE scrape_links(_, _, _, _)
scrape_links(links, council_of, outcomes, st) ==
    IF links = <<>> THEN st
    ELSE IF Head(links) \in st.scraped_urls
    THEN scrape_links(Tail(links), council_of, outcomes, st)
    ELSE scrape_links(
             Tail(links), council_of, outcomes,
             [scraped_urls |-> st.scraped_urls \cup {Head(links)},
              new_links_found |-> st.new_links_found + 1,
              detail_scraped |-> Append(st.detail_scraped, Head(links)),
              raised |-> IF outcomes[Head(links)] = "raise"
                         THEN st.raised \cup {Head(links)} ELSE st.raised,
              fundings |-> IF outcomes[Head(links)] = "record"
                           THEN Append(st.fundings,
                                       scrape_opportunity_details_of(
                                           Head(links), council_of[Head(links)]))
                           ELSE st.fundings])

\* the loop over one listing, started with what the run has so far
links_scraped(links, council_of, outcomes, run, fundings) ==
    scrape_links(links, council_of, outcomes,
                 [scraped_urls |-> run.scraped_urls, new_links_found |-> 0,
                  detail_scraped |-> run.detail_scraped, raised |-> run.raised,
                  fundings |-> fundings])

\* a run of scrape_all_councils about to call scrape_main_opportunities
NewRun(scraped_urls) ==
    [exc |-> "pending", pc |-> "main", page |-> 1, requested |-> <<>>,
     listed |-> <<>>,
     stopped |-> "no", scraped_urls |-> scraped_urls, detail_scraped |-> <<>>,
     raised |-> {}, fundings |-> <<>>, main_fundings |-> <<>>,
     all_fundings |-> <<>>, council |-> 1]

\* scrape_main_opportunities leaves its loop and returns fundings, which
\* scrape_all_councils puts into all_fundings
main_returns(run, requested, listed, stopped, st) ==
    [run EXCEPT !.pc = "main_returned", !.requested = requested, !.stopped = stopped,
                !.listed = listed,
                !.scraped_urls = st.scraped_urls,
                !.detail_scraped = st.detail_scraped,
                !.raised = st.raised,
                !.fundings = st.fundings,
                !.main_fundings = st.fundings,
                !.all_fundings = st.fundings]

\* what the log tells of one pass: the page asked for, what came back
\* (whether it held links), how many of them were new and how many records the loop holds after it
Pass(run, listing, st) ==
    [page |-> run.page, fetch |-> listing.fetch, links |-> listing.links # <<>>,
     new_links_found |-> st.new_links_found, collected |-> Len(st.fundings)]

\* (the loop going on after a page that brought no new link)
main_page_scraped_no_stop(run, listing, st) ==
    [run EXCEPT !.page = @ + 1, !.requested = Append(@, run.page),
                !.listed = Append(@, Pass(run, listing, st)),
                !.scraped_urls = st.scraped_urls,
                !.detail_scraped = st.detail_scraped,
                !.raised = st.raised,
                !.fundings = st.fundings]

\* the end of one pass of the while loop over a page with links
main_page_scraped(run, listing, st) ==
    IF st.new_links_found = 0
    THEN main_returns(run, Append(run.requested, run.page),
                      Append(run.listed, Pass(run, listing, st)), "no_new_links", st)
    ELSE [run EXCEPT !.page = @ + 1, !.requested = Append(@, run.page),
                     !.listed = Append(@, Pass(run, listing, st)),
                     !.scraped_urls = st.scraped_urls,
                     !.detail_scraped = st.detail_scraped,
                     !.raised = st.raised,
                     !.fundings = st.fundings]

\* what the loop starts a pass with
MainSoFar(run) ==
    [scraped_urls |-> run.scraped_urls, new_links_found |-> 0,
     detail_scraped |-> run.detail_scraped, raised |-> run.raised,
     fundings |-> run.fundings]

\* one pass of `while page <= max_pages`: fetch_page returns a page or
\* raises (it never returns a false value); a page is its list of links
scrape_main_page(run, listing, outcomes) ==
    IF listing.fetch # "ok"
    THEN main_returns(run, Append(run.requested, run.page),
                      Append(run.listed, Pass(run, listing, MainSoFar(run))),
                      "fetch_failed", MainSoFar(run))
    ELSE IF listing.links = <<>>
    THEN main_returns(run, Append(run.requested, run.page),
                      Append(run.listed, Pass(run, listing, MainSoFar(run))),
                      "no_links", MainSoFar(run))
    ELSE main_page_scraped(
             run, listing,
             links_scraped(listing.links,
                           [u \in RangeOf(listing.links) |-> determine_council_from_url(u)],
                           outcomes, run, run.fundings))

\* scrape_council inside the try of scrape_all_councils: a failed fetch
\* raises out of scrape_council and is logged
council_scraped(run, st) ==
    [run EXCEPT !.pc = "councils", !.council = @ + 1,
                !.scraped_urls = st.scraped_urls,
                !.detail_scraped = st.detail_scraped,
                !.raised = st.raised,
                !.all_fundings = @ \o st.fundings]

scrape_council(run, council_id, listing, outcomes) ==
    IF listing.fetch # "ok" THEN [run EXCEPT !.pc = "councils", !.council = @ + 1]
    ELSE council_scraped(
             run,
             links_scraped(listing.links,
                           [u \in RangeOf(listing.links) |-> council_id],
                           outcomes, run, <<>>))

\* ------------------------------------------------------------------------
\* Specifications of the UKRI listing loops: scrape_main_opportunities on
\* a site of up to MaxSitePages listing pages (SpecMain) and
\* scrape_all_councils on a site of MaxUrls opportunities (SpecUkri)
\* ------------------------------------------------------------------------
\* the lists of at most two links, none twice, a listing page can hold
LinkLists(urls) ==
    {<<>>} \cup {<<u>> : u \in urls}
           \cup {p \in urls \X urls : p[1] # p[2]}

FetchFailed == [fetch |-> "error", links |-> <<>>]

Listings(urls) == {FetchFailed} \cup [fetch : {"ok"}, links : LinkLists(urls)]

\* listing page number `page` of the long site: it links to the
\* opportunity of its number and to that of the page before; past the
\* last page the fetch fails
PageListings(page) ==
    IF page > MaxSitePages THEN {FetchFailed}
    ELSE Listings({page - 1, page})

\* the listings of the small site: any links to its MaxUrls opportunities
SiteListings == Listings(1..MaxUrls)

\* what the detail scrapes of a listing's links come to; only the urls in
\* `failing` can do other than return a record (the outcome for a link
\* in scraped_urls is not looked at, so one is enough)
OutcomesFor(links, failing) ==
    {o \in [RangeOf(links) -> DetailOutcomes] :
        \A u \in RangeOf(links) :
            (u \notin failing \/ u \in result.scraped_urls) => o[u] = "record"}

InitMain ==
    /\ disk = Missing
    /\ pre = Missing
    /\ batch = <<>>
    /\ ret = "none"
    /\ save = "none"
    /\ calls = 0
    /\ rec = Full("A", "v1")
    /\ vres = "none"
    /\ call = [fn |-> "scrape_main_opportunities"]
    /\ result \in {NewRun({}), NewRun({0})}

InitUkri ==
    /\ disk = Missing
    /\ pre = Missing
    /\ batch = <<>>
    /\ ret = "none"
    /\ save = "none"
    /\ calls = 0
    /\ rec = Full("A", "v1")
    /\ vres = "none"
    /\ call = [fn |-> "scrape_all_councils"]
    /\ result = NewRun({})

\* one pass of the while loop of scrape_main_opportunities, on the long
\* site
ScrapeLongSitePage ==
    /\ result.pc = "main"
    /\ result.page <= max_pages
    /\ \E listing \in PageListings(result.page) :
          \E outcomes \in OutcomesFor(listing.links, 0..MaxFailing) :
              result' = scrape_main_page(result, listing, outcomes)
    /\ UNCHANGED <<disk, pre, batch, ret, save, calls, rec, vres, call>>

\* ... and on the small site
ScrapeSitePage ==
    /\ result.pc = "main"
    /\ result.page <= max_pages
    /\ \E listing \in SiteListings :
          \E outcomes \in OutcomesFor(listing.links, 1..MaxUrls) :
              result' = scrape_main_page(result, listing, outcomes)
    /\ UNCHANGED <<disk, pre, batch, ret, save, calls, rec, vres, call>>

\* `while page <= max_pages` is false
MainPagesDone ==
    /\ result.pc = "main"
    /\ result.page > max_pages
    /\ result' = main_returns(result, result.requested, result.listed, "max_pages",
                               MainSoFar(result))
    /\ UNCHANGED <<disk, pre, batch, ret, save, calls, rec, vres, call>>

ScrapeCouncil ==
    /\ call.fn = "scrape_all_councils"
    /\ result.pc \in {"main_returned", "councils"}
    /\ result.council <= Len(CouncilIds)
    /\ \E listing \in SiteListings :
          \E outcomes \in OutcomesFor(listing.links, 1..MaxUrls) :
              result' = scrape_council(result, CouncilIds[result.council],
                                       listing, outcomes)
    /\ UNCHANGED <<disk, pre, batch, ret, save, calls, rec, vres, call>>

\* `return all_fundings`
AllCouncilsDone ==
    /\ call.fn = "scrape_all_councils"
    /\ result.pc = "councils"
    /\ result.council > Len(CouncilIds)
    /\ result' = [result EXCEPT !.pc = "returned", !.exc = "none"]
    /\ UNCHANGED <<disk, pre, batch, ret, save, calls, rec, vres, call>>

NextMain == ScrapeLongSitePage \/ MainPagesDone

SpecMain == InitMain /\ [][NextMain]_vars

\* with MaxUrls opportunities the main listing runs out of new links long
\* before max_pages
NextUkri == ScrapeSitePage \/ ScrapeCouncil \/ AllCouncilsDone

SpecUkri == InitUkri /\ [][NextUkri]_vars

RunReturned == call.fn = "scrape_all_councils" /\ result.pc = "returned"

\* how often url u has been detail-scraped in the run
TimesScraped(u) ==
    Cardinality({i \in 1..Len(result.detail_scraped) : result.detail_scraped[i] = u})

\* ------------------------------------------------------------------------
\* C27: within one run of scrape_all_councils each url is detail-scraped
\* at most once, over the pages of the main listing and the nine council
\* listings: a url is put into scraped_urls before its detail scrape, no
\* two returned records have one scraped_from, and a url whose detail
\* scrape raised is in scraped_urls and is not scraped again.
\* ------------------------------------------------------------------------
C27_EachUrlScrapedOnce ==
    call.fn = "scrape_all_councils" =>
        /\ \A u \in 1..MaxUrls : TimesScraped(u) <= 1
        /\ RangeOf(result.detail_scraped) = result.scraped_urls
        /\ result.raised \subseteq result.scraped_urls
        /\ \A i, j \in 1..Len(result.all_fundings) :
              result.all_fundings[i].scraped_from = result.all_fundings[j].scraped_from
                  => i = j
        /\ \A i \in 1..Len(result.all_fundings) :
              /\ result.all_fundings[i].scraped_from \in result.scraped_urls
              /\ result.all_fundings[i].scraped_from \notin result.raised
        /\ RunReturned => result.exc = "none"

\* both urls were on the main listing, the detail scrape of one raised, all
\* nine councils were scraped after it, and the run returned the one record
C27_Witness ==
    /\ RunReturned
    /\ result.requested = <<1, 2>>
    /\ result.council = Len(CouncilIds) + 1
    /\ result.raised = {2}
    /\ result.detail_scraped = <<1, 2>>
    /\ Len(result.all_fundings) = 1
    /\ result.all_fundings[1].scraped_from = 1

\* scrape_main_opportunities is scheduled until it returns
SpecMainLive == SpecMain /\ WF_vars(NextMain)

MainReturned == call.fn = "scrape_main_opportunities" /\ result.pc = "main_returned"

\* a pass after which the loop goes on: the page came, with links, one of
\* them new
GoesOn(pass) ==
    pass.fetch = "ok" /\ pass.links /\ pass.new_links_found > 0

\* the listing pages are asked for in order from 1, no more than
\* max_pages of them, and only the last one can be a page to stop at
PagesInOrder ==
    /\ Len(result.listed) <= max_pages
    /\ result.requested = [i \in 1..Len(result.listed) |-> i]
    /\ \A i \in 1..Len(result.listed) :
          /\ result.listed[i].page = i
          /\ i < Len(result.listed) => GoesOn(result.listed[i])
    /\ result.pc = "main" =>
          /\ result.page = Len(result.listed) + 1
          /\ \A i \in 1..Len(result.listed) : GoesOn(result.listed[i])

\* it returns at the first page to stop at, or after page max_pages, with
\* the records collected up to there
ReturnsCollected ==
    MainReturned =>
        /\ result.stopped \in {"no_links", "no_new_links", "fetch_failed", "max_pages"}
        /\ result.stopped = "max_pages" =>
              /\ Len(result.listed) = max_pages
              /\ GoesOn(result.listed[max_pages])
        /\ result.stopped # "max_pages" =>
              /\ result.listed # <<>>
              /\ ~GoesOn(result.listed[Len(result.listed)])
        /\ result.stopped = "fetch_failed" =>
              result.listed[Len(result.listed)].fetch # "ok"
        /\ result.stopped = "no_links" =>
              /\ result.listed[Len(result.listed)].fetch = "ok"
              /\ ~result.listed[Len(result.listed)].links
        /\ result.stopped = "no_new_links" =>
              /\ result.listed[Len(result.listed)].links
              /\ result.listed[Len(result.listed)].new_links_found = 0
        /\ result.listed # <<>> =>
              Len(result.main_fundings) = result.listed[Len(result.listed)].collected
        /\ \A i \in 1..Len(result.main_fundings) :
              result.main_fundings[i].scraped_from \in RangeOf(result.detail_scraped)

\* ------------------------------------------------------------------------
\* C28: scrape_main_opportunities always terminates: it asks for at most
\* 15 listing pages, in increasing order, stops at the first page without
\* links, without a new link or whose fetch fails, and returns the
\* records collected from the pages so far.
\* ------------------------------------------------------------------------
C28_MainListingTerminates ==
    /\ [](PagesInOrder /\ ReturnsCollected)
    /\ <>(result.pc # "main")

\* all max_pages pages brought a new link and the loop ended at its limit
C28_Witness ==
    /\ MainReturned
    /\ result.stopped = "max_pages"
    /\ Len(result.requested) = 15
    /\ Len(result.main_fundings) >= 13

\* the loop stopped at page 3, which linked only to what page 2 had
C28_WitnessNoNewLinks ==
    /\ MainReturned
    /\ result.stopped = "no_new_links"
    /\ result.requested = <<1, 2, 3>>
    /\ Len(result.main_fundings) = 2

\* ------------------------------------------------------------------------
\* Specification of scrape_all_academies and scrape_all_foundations over
\* the funding pages of their sources: a page is fetched or not, and
\* holds the source's schemes
\* ------------------------------------------------------------------------
sources_of(scraper) == IF scraper = "academies" THEN academies ELSE foundations

\* scrape_academy / scrape_foundation from the fetch on: fetch_page
\* raising is caught with fundings still empty
scrape_source(scraper, info, page) ==
    IF page.fetch # "ok" THEN <<>>
    ELSE scrape_organization(scraper, info, page.schemes)

\* the loop of scrape_all_academies / scrape_all_foundations; the
\* methods it calls catch what they raise
scrape_all_sources(scraper, pages) ==
    scrape_source(scraper, sources_of(scraper)[1], pages[1])
        \o scrape_source(scraper, sources_of(scraper)[2], pages[2])

SourceDeadlines == {<<"2", "0", "2", "4", "-", "0", "9", "-", "1", "5">>, <<"N", "O", "W">>}

\* the schemes of a source page: the deadline parses or does not, and a
\* foundation scheme has a success rate that parses, one that does not,
\* or none
AcademyPageSchemes ==
    [keys : {SchemeKeys},
     title : SchemeTitles,
     career_stage : {"Senior"},
     amount : {[min |-> 50000, max |-> 100000]},
     deadline : SourceDeadlines,
     frequency : {<<"A", "n", "n", "u", "a", "l">>},
     success_rate : {<<>>}]

FoundationPageSchemes ==
    [keys : {SchemeKeys \cup {"success_rate"}},
     title : SchemeTitles,
     career_stage : {"All Stages"},
     amount : {[min |-> 50000, max |-> 100000]},
     deadline : {<<"2", "0", "2", "4", "-", "0", "9", "-", "1", "5">>},
     frequency : {<<"A", "n", "n", "u", "a", "l">>},
     success_rate : {<<"2", "5", "%">>, <<"N", "/", "A">>}]
        \cup [keys : {SchemeKeys},
              title : SchemeTitles,
              career_stage : {"All Stages"},
              amount : {[min |-> 50000, max |-> 100000]},
              deadline : {<<"2", "0", "2", "4", "-", "0", "9", "-", "1", "5">>},
              frequency : {<<"A", "n", "n", "u", "a", "l">>},
              success_rate : {<<>>}]

\* the pages of the two sources: up to MaxSchemes schemes on the first,
\* one at most on the second
SourcePages(schemes) ==
    {<<[fetch |-> f[1], schemes |-> a], [fetch |-> f[2], schemes |-> b]>> :
        f \in {"ok", "error"} \X {"ok", "error"},
        a \in UNION {[1..n -> schemes] : n \in 0..MaxSchemes},
        b \in UNION {[1..n -> schemes] : n \in 0..1}}

InitSources ==
    /\ disk = Missing
    /\ pre = Missing
    /\ batch = <<>>
    /\ ret = "none"
    /\ save = "none"
    /\ calls = 0
    /\ rec = Full("A", "v1")
    /\ vres = "none"
    /\ call \in [fn : {"scrape_all"}, scraper : {"academies"},
                 input : SourcePages(AcademyPageSchemes)]
           \cup [fn : {"scrape_all"}, scraper : {"foundations"},
                 input : SourcePages(FoundationPageSchemes)]
    /\ result = NoResult

ScrapeAllSources ==
    /\ call.fn = "scrape_all"
    /\ result = NoResult
    /\ result' = [exc |-> "none",
                  fundings |-> scrape_all_sources(call.scraper, call.input)]
    /\ UNCHANGED <<disk, pre, batch, ret, save, calls, rec, vres, call>>

NextSources == ScrapeAllSources

SpecSources == InitSources /\ [][NextSources]_vars

\* building scheme i of source n raises
BuildRaises(n, i) ==
    create_funding_object(call.scraper, call.input[n].schemes[i]).exc # "none"

\* the page of source n cannot be fetched, or one of its schemes cannot
\* be built
SourceFails(n) ==
    \/ call.input[n].fetch # "ok"
    \/ \E i \in 1..Len(call.input[n].schemes) : BuildRaises(n, i)

\* the returned records of source n, in order
RecordsOf(n) ==
    SelectSeq(result.fundings,
              LAMBDA f : f.subcategory = sources_of(call.scraper)[n].id)

\* ------------------------------------------------------------------------
\* C29: in the Academies and Foundations scrapers an exception while one
\* scheme of a source is built, or while its page is fetched, leaves no
\* record of that source, the schemes built before the failing one
\* included; the other source is scraped all the same and scrape_all_
\* does not raise; every returned record has the organization, category
\* and subcategory of its source.
\* ------------------------------------------------------------------------
C29_FailingSourceReturnsNothing ==
    (Returned /\ call.fn = "scrape_all") =>
        /\ result.exc = "none"
        /\ \A n \in 1..2 :
              /\ SourceFails(n) => RecordsOf(n) = <<>>
              /\ ~SourceFails(n) =>
                    /\ Len(RecordsOf(n)) = Len(call.input[n].schemes)
                    /\ \A i \in 1..Len(RecordsOf(n)) :
                          RecordsOf(n)[i].title = call.input[n].schemes[i].title
        /\ Len(result.fundings) = Len(RecordsOf(1)) + Len(RecordsOf(2))
        /\ \A i \in 1..Len(result.fundings) :
              /\ result.fundings[i].category = call.scraper
              /\ \E n \in 1..2 :
                    /\ result.fundings[i].subcategory = sources_of(call.scraper)[n].id
                    /\ result.fundings[i].organization = sources_of(call.scraper)[n].name

\* the second scheme of the first source cannot be built, the first one
\* could; the second source is fine, and its record alone is returned
C29_Witness ==
    /\ Returned
    /\ call.fn = "scrape_all"
    /\ call.input[1].fetch = "ok"
    /\ Len(call.input[1].schemes) = 2
    /\ ~BuildRaises(1, 1)
    /\ BuildRaises(1, 2)
    /\ ~SourceFails(2)
    /\ Len(call.input[2].schemes) = 1
    /\ Len(result.fundings) = 1
    /\ result.fundings[1].subcategory = sources_of(call.scraper)[2].id

\* ------------------------------------------------------------------------
\* FundingDataUpdater.validate_data
\* ------------------------------------------------------------------------
\* (a field no record is checked for before it is stored)
validate_data_required_fields_and_status ==
    {"id", "title", "organization", "category", "description", "status"}

\* required_fields of validate_data
validate_data_required_fields ==
    {"id", "title", "organization", "category", "description"}

\* validate_data on the store file d; load_json and database.get are
\* outside any try
validate_data_loaded(loaded) ==
    IF loaded.exc # "none" THEN "raise"
    ELSE IF Falsy(loaded.val) THEN "False"
    ELSE IF loaded.val.type # "dict" THEN "raise"
    ELSE IF stored_fundings(loaded.val) = <<>> THEN "True"
    ELSE IF \A i \in 1..Len(stored_fundings(loaded.val)) :
                validate_data_required_fields \subseteq stored_fundings(loaded.val)[i].keys
    THEN "True"
    ELSE "False"

validate_data(d) == validate_data_loaded(load_json(d))

\* ------------------------------------------------------------------------
\* Specification of update_database calls on a store that does not exist
\* at first, with validate_data run in between
\* ------------------------------------------------------------------------
InitStore ==
    /\ disk = Missing
    /\ pre = Missing
    /\ batch = <<>>
    /\ ret = "none"
    /\ save = "none"
    /\ calls = 0
    /\ rec = Full("A", "v1")
    /\ vres = "none"
    /\ call = [fn |-> "validate_data"]
    /\ result = [exc |-> "none", returned_true |-> FALSE, write_interrupted |-> FALSE]

UpdateStore ==
    \E new_fundings \in Batches, io \in IoOutcomes :
        /\ calls < MaxCalls
        /\ \E r \in {update_database(new_fundings, disk, io, calls + 1)} :
             /\ disk' = r.disk
             /\ ret' = r.ret
             /\ save' = r.save
             /\ result' = [result EXCEPT
                              !.returned_true = @ \/ r.ret = "True",
                              !.write_interrupted = @ \/ r.save = "dump"]
        /\ pre' = disk
        /\ batch' = new_fundings
        /\ calls' = calls + 1
        /\ vres' = "none"
        /\ UNCHANGED <<rec, call>>

ValidateData ==
    /\ vres = "none"
    /\ vres' = validate_data(disk)
    /\ UNCHANGED <<disk, pre, batch, ret, save, calls, rec, call, result>>

NextStore == UpdateStore \/ ValidateData

SpecStore == InitStore /\ [][NextStore]_vars

\* ------------------------------------------------------------------------
\* C30: after update_database calls on a store that was missing at first,
\* none of whose writes broke off, once one call has returned True
\* validate_data returns True, and every stored record has id, title,
\* organization, category and description.
\* ------------------------------------------------------------------------
C30_StoreValidates ==
    (call.fn = "validate_data" /\ result.returned_true /\ ~result.write_interrupted) =>
        /\ vres \in {"none", "True"}
        /\ validate_data(disk) = "True"
        /\ disk.file = "json"
        /\ \A i \in 1..Len(disk.data.fundings) :
              {"id", "title", "organization", "category", "description"}
                  \subseteq disk.data.fundings[i].keys

\* two calls, the first stored C, the second was handed a record without
\* description and stored nothing new; validate_data then returned True
C30_Witness ==
    /\ call.fn = "validate_data"
    /\ calls = 2
    /\ result.returned_true
    /\ ~result.write_interrupted
    /\ ret = "True"
    /\ RecordD \in RangeOf(batch)
    /\ IdsOf(disk.data.fundings) = {"C"}
    /\ vres = "True"

\* without the premise the store need not validate: after a write that
\* broke off validate_data returns False
ValidatesAlsoAfterInterruptedWrite ==
    (call.fn = "validate_data" /\ result.returned_true) => vres \in {"none", "True"}

====
